---- MODULE Spec2Model ----
(***************************************************************************)
(* Model of the reccmp entity correlation engine:                          *)
(*   reccmp/isledecomp/compare/db.py         EntityDb, EntityBatch         *)
(*   reccmp/isledecomp/compare/match_msvc.py the matching passes           *)
(*                                                                         *)
(* The sqlite database is modelled table by table.  A row of `entities`    *)
(* is a record [orig, recomp, kv]; a NULL address column is the value      *)
(* NULL.  The kvstore JSON object is a function from the attribute keys to *)
(* an option value: {} is what json_extract reads as NULL (key absent or   *)
(* JSON null), {v} is the value v.  Keyword arguments of the Python API    *)
(* are functions over the keys that were passed, so that a key passed as   *)
(* None ([name |-> {}]) differs from a key that was not passed.            *)
(* Text values are sequences of tokens (each token a fixed substring), so  *)
(* that formatting and substring search are computed, not assumed.         *)
(* The `truncate` option of the passes is modelled at its default, False.  *)
(***************************************************************************)
EXTENDS Integers, Sequences, FiniteSets, TLC

VARIABLES
    entities,   \* table entities: set of rows [orig, recomp, kv]
    types,      \* table types:  set of <<img, addr, type>>, key (img, addr)
    labels,     \* table labels: set of <<img, addr, label>>, key (img, addr)
    raw,        \* table raw:    set of <<img, addr, data>>, key (img, addr)
    saved,      \* the database as of the last COMMIT (what ROLLBACK restores)
    batch,      \* the pending state of the EntityBatch in use
    inWith,     \* TRUE while the batch is open as a `with` block
    lastOp,     \* the operation that made the last step, with its arguments
    raised,     \* TRUE when the last operation ended by raising an exception
    events,     \* the events the last matching pass reported: <<kind, orig_addr>>
    calls,      \* number of API calls made so far (bounded)
    lines,      \* the LinesDb: [map, functions, functions_map]
    reccmp,     \* table reccmp of the ReccmpDb: set of rows [source, target, symbol, kwstore]
    source,     \* the source text read so far, as the client fed it
    preproc,    \* the preprocessor generator: its locals and the tokens it has yielded
    parser      \* the DecompParser: its fields, with those of its CurlyManager

vars ==
    <<entities, types, labels, raw, saved, batch, inWith, lastOp, raised, events, calls,
      lines, reccmp, source, preproc, parser>>

\* The state of the programs that stand beside the entity database
toolVars == <<reccmp, source, preproc, parser>>

----------------------------------------------------------------------------
(* Bounds of the model *)

NumOrig == 2
NumRecomp == 2
MaxCalls == 4

NULL == 0

OrigAddrs == 1..NumOrig
RecompAddrs == 1..NumRecomp

Keys == {"type", "name", "symbol", "base_class", "static_var",
         "parent_function", "ref_orig", "ref_recomp", "filename", "line"}

----------------------------------------------------------------------------
(* Generic helpers *)

RECURSIVE SortedSeq(_)
SortedSeq(S) ==
    IF S = {} THEN <<>>
    ELSE LET m == CHOOSE x \in S : \A y \in S : x <= y
         IN <<m>> \o SortedSeq(S \ {m})


EmptyMap == [x \in {} |-> {}]

\* dict.update / d[k] = v
MapPut(m, k, v) == [x \in DOMAIN m \cup {k} |-> IF x = k THEN v ELSE m[x]]

\* dict.pop(k, None) as far as the dict is concerned
MapDel(m, k) == [x \in DOMAIN m \ {k} |-> m[x]]

\* kwargs: dict.update(other)
KwUpdate(old, new) ==
    [k \in DOMAIN old \cup DOMAIN new |-> IF k \in DOMAIN new THEN new[k] ELSE old[k]]

\* Python truthiness of kwargs.get("type") and kwargs.get("name"): a key that
\* was not passed, None and the empty string are falsy
KwHasType(kw) == "type" \in DOMAIN kw /\ kw["type"] # {}
KwHasName(kw) == "name" \in DOMAIN kw /\ kw["name"] # {} /\ kw["name"] # {<<>>}

OptVal(o) == CHOOSE v \in o : TRUE

----------------------------------------------------------------------------
(* JSON *)

\* json.dumps(values) stored as a new kvstore
Kv(kw) == [k \in Keys |-> IF k \in DOMAIN kw THEN kw[k] ELSE {}]

EmptyKv == Kv(EmptyMap)

\* json_patch(target, patch) of RFC 7396 on flat objects: a key of the patch
\* replaces the target's value, and a null in the patch removes the key.
JsonPatch(target, patch) ==
    [k \in Keys |-> IF k \in DOMAIN patch THEN patch[k] ELSE target[k]]

\* json_patch('{}', kvstore): the kvstore without its null members
NonNull(kv) == [k \in {x \in Keys : kv[x] # {}} |-> kv[k]]

\* json_set(kvstore, '$.type', value)
JsonSetType(kv, value) == [kv EXCEPT !["type"] = value]

----------------------------------------------------------------------------
(* The database as a value: the four tables *)

Db(e, t, l, r) == [entities |-> e, types |-> t, labels |-> l, raw |-> r]

EmptyDb == Db({}, {}, {}, {})

cur == Db(entities, types, labels, raw)

Row(o, r, kv) == [orig |-> o, recomp |-> r, kv |-> kv]

\* Views matched0 / matched1
Matched0(E) == {e.orig : e \in {x \in E : x.orig # NULL /\ x.recomp # NULL}}
Matched1(E) == {e.recomp : e \in {x \in E : x.orig # NULL /\ x.recomp # NULL}}

\* Views orig_unmatched / recomp_unmatched
OrigUnmatched(E) == {e \in E : e.orig # NULL /\ e.recomp = NULL}
RecompUnmatched(E) == {e \in E : e.recomp # NULL /\ e.orig = NULL}

OrigUsed(E, addr) == \E e \in E : e.orig = addr
RecompUsed(E, addr) == \E e \in E : e.recomp = addr

\* get_by_orig / get_by_recomp with exact=True; NoRow stands for None
NoRow == Row(NULL, NULL, EmptyKv)
GetByOrig(E, addr) ==
    IF OrigUsed(E, addr) THEN CHOOSE e \in E : e.orig = addr ELSE NoRow
GetByRecomp(E, addr) ==
    IF RecompUsed(E, addr) THEN CHOOSE e \in E : e.recomp = addr ELSE NoRow

----------------------------------------------------------------------------
(* EntityBatch: the pending state and the staging methods *)

EmptyBatch ==
    [orig_insert |-> EmptyMap, recomp_insert |-> EmptyMap,
     orig |-> EmptyMap, recomp |-> EmptyMap,
     labels |-> EmptyMap, types |-> EmptyMap,
     orig_to_recomp |-> EmptyMap, recomp_to_orig |-> EmptyMap,
     recomp_addr |-> EmptyMap]

\* self._x.setdefault(addr, {}).update(kwargs)
StageKw(m, addr, kw) ==
    MapPut(m, addr, KwUpdate(IF addr \in DOMAIN m THEN m[addr] ELSE EmptyMap, kw))

\* the `if kwargs.get("type")` / `if kwargs.get("name")` tails of the four methods
StageIndex(b, img, addr, kw) ==
    [b EXCEPT
        !.types = IF KwHasType(kw)
                  THEN MapPut(b.types, <<img, addr>>, OptVal(kw["type"])) ELSE @,
        !.labels = IF KwHasName(kw)
                   THEN MapPut(b.labels, <<img, addr>>, OptVal(kw["name"])) ELSE @]

BatchInsertOrig(b, addr, kw) ==
    StageIndex([b EXCEPT !.orig_insert = StageKw(@, addr, kw)], 0, addr, kw)

BatchInsertRecomp(b, addr, kw) ==
    StageIndex([b EXCEPT !.recomp_insert = StageKw(@, addr, kw)], 1, addr, kw)

BatchSetOrig(b, addr, kw) ==
    StageIndex([b EXCEPT !.orig = StageKw(@, addr, kw)], 0, addr, kw)

BatchSetRecomp(b, addr, kw) ==
    StageIndex([b EXCEPT !.recomp = StageKw(@, addr, kw)], 1, addr, kw)

\* `used_orig := self._recomp_to_orig.pop(recomp, None)`, NULL for None
UsedOrig(b, r) ==
    IF r \in DOMAIN b.recomp_to_orig THEN b.recomp_to_orig[r] ELSE NULL

\* A match that writes the new link and leaves the link it replaces
BatchMatchKeepsOld(b, o, r) ==
    [b EXCEPT !.orig_to_recomp = MapPut(@, o, r),
              !.recomp_to_orig = MapPut(@, r, o)]

\* EntityBatch.match
BatchMatch(b, o, r) ==
    LET used == r \in DOMAIN b.recomp_to_orig
        otr1 == IF used THEN MapDel(b.orig_to_recomp, b.recomp_to_orig[r])
                ELSE b.orig_to_recomp
        rto1 == MapDel(b.recomp_to_orig, r)
    IN  [b EXCEPT !.orig_to_recomp = MapPut(otr1, o, r),
                  !.recomp_to_orig = MapPut(rto1, r, o)]

\* EntityBatch.set_recomp_addr
BatchSetRecompAddr(b, o, r) == [b EXCEPT !.recomp_addr = MapPut(@, o, r)]

----------------------------------------------------------------------------
(* EntityDb: the SQL statements, one row of an executemany at a time *)

\* INSERT or ignore INTO entities (orig_addr, kvstore)
InsertOrigRow(E, addr, kw) ==
    IF OrigUsed(E, addr) THEN E ELSE E \cup {Row(addr, NULL, Kv(kw))}

\* INSERT ... ON CONFLICT (orig_addr) DO UPDATE SET kvstore = json_patch(...)
UpsertOrigRow(E, addr, kw) ==
    IF OrigUsed(E, addr)
    THEN {IF e.orig = addr THEN [e EXCEPT !.kv = JsonPatch(@, kw)] ELSE e : e \in E}
    ELSE E \cup {Row(addr, NULL, Kv(kw))}

\* INSERT or ignore INTO entities (recomp_addr, kvstore)
InsertRecompRow(E, addr, kw) ==
    IF RecompUsed(E, addr) THEN E ELSE E \cup {Row(NULL, addr, Kv(kw))}

\* INSERT ... ON CONFLICT (recomp_addr) DO UPDATE SET kvstore = json_patch(...)
UpsertRecompRow(E, addr, kw) ==
    IF RecompUsed(E, addr)
    THEN {IF e.recomp = addr THEN [e EXCEPT !.kv = JsonPatch(@, kw)] ELSE e : e \in E}
    ELSE E \cup {Row(NULL, addr, Kv(kw))}

\* The rows of one executemany: rows is a dict, ks the keys still to do.
\* The keys of a dict are distinct addresses, so its rows do not interact;
\* they are taken in ascending key order.
RECURSIVE OrigInsertRows(_, _, _, _)
OrigInsertRows(E, rows, ks, upsert) ==
    IF ks = <<>> THEN E
    ELSE OrigInsertRows(IF upsert THEN UpsertOrigRow(E, Head(ks), rows[Head(ks)])
                        ELSE InsertOrigRow(E, Head(ks), rows[Head(ks)]),
                        rows, Tail(ks), upsert)

\* EntityDb.bulk_orig_insert
BulkOrigInsert(E, rows, upsert) ==
    OrigInsertRows(E, rows, SortedSeq(DOMAIN rows), upsert)

RECURSIVE RecompInsertRows(_, _, _, _)
RecompInsertRows(E, rows, ks, upsert) ==
    IF ks = <<>> THEN E
    ELSE RecompInsertRows(IF upsert THEN UpsertRecompRow(E, Head(ks), rows[Head(ks)])
                          ELSE InsertRecompRow(E, Head(ks), rows[Head(ks)]),
                          rows, Tail(ks), upsert)

\* EntityDb.bulk_recomp_insert
BulkRecompInsert(E, rows, upsert) ==
    RecompInsertRows(E, rows, SortedSeq(DOMAIN rows), upsert)

\* json_patch(o.kvstore, json_patch('{}', entities.kvstore)) written to the
\* rows WHERE recomp_addr = r AND orig_addr is null
CopyKvTo(E, okv, r) ==
    {IF e.recomp = r /\ e.orig = NULL
     THEN [e EXCEPT !.kv = JsonPatch(okv, NonNull(e.kv))]
     ELSE e : e \in E}

\* bulk_match, first statement: UPDATE entities SET kvstore = ... FROM
\*   (SELECT kvstore FROM entities WHERE orig_addr = ? and recomp_addr is null) o
\*   WHERE recomp_addr = ? AND orig_addr is null
MatchCopyRow(E, o, r) ==
    IF \E e \in E : e.orig = o /\ e.recomp = NULL
    THEN CopyKvTo(E, (CHOOSE e \in E : e.orig = o /\ e.recomp = NULL).kv, r)
    ELSE E

\* bulk_match, second statement: UPDATE OR REPLACE entities SET orig_addr = ?
\*   WHERE recomp_addr = ? AND orig_addr is null
\* REPLACE deletes every other row that holds the orig address.
MatchPatchRowKeepsOld(E, o, r) ==
    {IF e.recomp = r /\ e.orig = NULL THEN [e EXCEPT !.orig = o] ELSE e : e \in E}

MatchPatchRow(E, o, r) ==
    IF \E e \in E : e.recomp = r /\ e.orig = NULL
    THEN {IF e.recomp = r /\ e.orig = NULL THEN [e EXCEPT !.orig = o] ELSE e :
            e \in {x \in E : x.orig # o}}
    ELSE E

RECURSIVE MatchCopyRows(_, _, _)
MatchCopyRows(E, pairs, ks) ==
    IF ks = <<>> THEN E
    ELSE MatchCopyRows(MatchCopyRow(E, Head(ks), pairs[Head(ks)]), pairs, Tail(ks))

RECURSIVE MatchPatchRows(_, _, _)
MatchPatchRows(E, pairs, ks) ==
    IF ks = <<>> THEN E
    ELSE MatchPatchRows(MatchPatchRow(E, Head(ks), pairs[Head(ks)]), pairs, Tail(ks))

\* EntityDb.bulk_match: pairs is the dict _orig_to_recomp.  Both statements
\* run over the whole pair list, the first one first.
BulkMatch(E, pairs) ==
    MatchPatchRows(MatchCopyRows(E, pairs, SortedSeq(DOMAIN pairs)),
                   pairs, SortedSeq(DOMAIN pairs))

\* bulk_set_recomp_addr, one row: UPDATE entities SET recomp_addr = ?
\*   WHERE orig_addr = ? and recomp_addr is null
\* The column is unique: the statement fails (IntegrityError) when another
\* row holds the recomp address.  res is [ok, E].
SetRecompAddrRow(res, o, r) ==
    IF ~res.ok \/ ~(\E e \in res.E : e.orig = o /\ e.recomp = NULL) THEN res
    ELSE IF RecompUsed(res.E, r) THEN [res EXCEPT !.ok = FALSE]
    ELSE [res EXCEPT !.E = {IF e.orig = o THEN [e EXCEPT !.recomp = r] ELSE e :
                                e \in @}]

RECURSIVE SetRecompAddrRows(_, _, _)
SetRecompAddrRows(res, pairs, ks) ==
    IF ks = <<>> THEN res
    ELSE SetRecompAddrRows(SetRecompAddrRow(res, Head(ks), pairs[Head(ks)]),
                           pairs, Tail(ks))

\* EntityDb.bulk_set_recomp_addr: pairs is the dict _recomp_addr
BulkSetRecompAddr(E, pairs) ==
    SetRecompAddrRows([ok |-> TRUE, E |-> E], pairs, SortedSeq(DOMAIN pairs))

\* INSERT OR REPLACE INTO types / labels (img, addr, value): m is a dict
\* (img, addr) -> value
ReplaceInto(T, m) ==
    {t \in T : <<t[1], t[2]>> \notin DOMAIN m}
        \cup {<<k[1], k[2], m[k]>> : k \in DOMAIN m}

----------------------------------------------------------------------------
(* EntityBatch.commit *)

\* The four bulk inserts at the head of commit()
CommitInserts(E, b) ==
    BulkRecompInsert(
        BulkOrigInsert(
            BulkRecompInsert(
                BulkOrigInsert(E, b.orig_insert, FALSE),
                b.recomp_insert, FALSE),
            b.orig, TRUE),
        b.recomp, TRUE)

\* `if self._orig_to_recomp: self.base.bulk_match(...)`.  bulk_match runs in
\* its own `with self._sql:` block, which COMMITs on exit: when a match is
\* staged, everything executed so far becomes the saved database.
\* The result is [db, saved].
Saved(d) == [db |-> d, saved |-> d]

MatchAndSave(d, sv, b) ==
    IF DOMAIN b.orig_to_recomp # {}
    THEN Saved([d EXCEPT !.entities = BulkMatch(@, b.orig_to_recomp)])
    ELSE [db |-> d, saved |-> sv]

\* The statements of commit() up to and including bulk_match
CommitUpToMatch(d, sv, b) ==
    MatchAndSave([d EXCEPT !.entities = CommitInserts(@, b)], sv, b)

\* The index maintenance at the end of commit().  The labels are written
\* under `if self._types:`.
CommitIndexes(d, b) ==
    IF DOMAIN b.types # {}
    THEN [d EXCEPT !.types = ReplaceInto(@, b.types),
                   !.labels = ReplaceInto(@, b.labels)]
    ELSE d

\* The end of a commit() that met no exception: COMMIT and reset()
CommitDone(d) == [db |-> d, saved |-> d, batch |-> EmptyBatch, ok |-> TRUE]

\* commit() from bulk_set_recomp_addr on: m is [db, saved] as bulk_match
\* left them, res the result of bulk_set_recomp_addr.  On an exception the
\* outer `with self.base.sql:` rolls back to the saved database and reset()
\* is not reached.
CommitTail(m, res, b) ==
    IF ~res.ok
    THEN [db |-> m.saved, saved |-> m.saved, batch |-> b, ok |-> FALSE]
    ELSE CommitDone(CommitIndexes([m.db EXCEPT !.entities = res.E], b))

CommitFrom(m, b) ==
    CommitTail(m, BulkSetRecompAddr(m.db.entities, b.recomp_addr), b)

\* EntityBatch.commit: the result is [db, saved, batch, ok]
Commit(d, sv, b) == CommitFrom(CommitUpToMatch(d, sv, b), b)

\* EntityDb.set_pair: the result is [E, ret]
SetPair(E, o, r, t) ==
    IF OrigUsed(E, o) THEN [E |-> E, ret |-> FALSE]
    ELSE [E |-> {IF e.recomp = r
                 THEN [e EXCEPT !.orig = o, !.kv = JsonSetType(@, t)]
                 ELSE e : e \in E},
          ret |-> RecompUsed(E, r)]

----------------------------------------------------------------------------
(* match_msvc.py: EntityIndex, a one-to-many index from text to addresses *)

IndexHas(idx, key) == key \in DOMAIN idx

IndexAdd(idx, key, value) ==
    MapPut(idx, key, (IF key \in DOMAIN idx THEN idx[key] ELSE <<>>) \o <<value>>)

\* EntityIndex.pop: the value returned, and the index afterwards
IndexPopLast(idx, key) == idx[key][Len(idx[key])]

IndexPopValue(idx, key) == Head(idx[key])
IndexPop(idx, key) ==
    IF Len(idx[key]) = 1 THEN MapDel(idx, key) ELSE MapPut(idx, key, Tail(idx[key]))

\* The addresses of the rows of a view in its ORDER BY orig_addr /
\* ORDER BY recomp_addr
OrigScan(S) == SortedSeq({e.orig : e \in S})
RecompScan(S) == SortedSeq({e.recomp : e \in S})

\* What a pass has built so far: its index, its batch and its reports
PassState(idx) == [idx |-> idx, batch |-> EmptyBatch, events |-> <<>>]

Report(st, kind, addr) == [st EXCEPT !.events = Append(@, <<kind, addr>>)]

\* report(kind, addr, msg=...) where the text of the message matters: msg
\* names the f-string the message is made from
ReportMsg(st, kind, addr, msg) ==
    [st EXCEPT !.events = Append(@, <<kind, addr, msg>>)]

\* batch.match(orig_addr, recomp_addr) inside a pass
PassMatch(st, orig_addr, recomp_addr) ==
    [st EXCEPT !.batch = BatchMatch(@, orig_addr, recomp_addr)]

\* idx.pop(key) handed to batch.match
PopMatch(st, orig_addr, key) ==
    [st EXCEPT !.idx = IndexPop(@, key),
               !.batch = BatchMatch(@, orig_addr, IndexPopValue(st.idx, key))]

----------------------------------------------------------------------------
(* match_symbols *)

\* The first loop: the index symbol -> [recomp_addr] over recomp_unmatched
RECURSIVE SymbolIndexAdd(_, _, _)
SymbolIndexAdd(idx, E, rs) ==
    IF rs = <<>> THEN idx
    ELSE SymbolIndexAdd(
            IndexAdd(idx, OptVal(GetByRecomp(E, Head(rs)).kv["symbol"]), Head(rs)),
            E, Tail(rs))

SymbolIndex(E) ==
    SymbolIndexAdd(EmptyMap, E,
        RecompScan({e \in RecompUnmatched(E) : e.kv["symbol"] # {}}))

\* `if symbol in symbol_index: report(NON_UNIQUE_SYMBOL)` after the pop
ReportNonUnique(st, orig_addr, symbol) ==
    IF IndexHas(st.idx, symbol)
    THEN Report(st, "NON_UNIQUE_SYMBOL", orig_addr)
    ELSE st

\* The body of the second loop for one row of orig_unmatched
MatchSymbolsStep(st, orig_addr, symbol) ==
    IF IndexHas(st.idx, symbol)
    THEN ReportNonUnique(PopMatch(st, orig_addr, symbol), orig_addr, symbol)
    ELSE Report(st, "NO_MATCH", orig_addr)

RECURSIVE MatchSymbolsLoop(_, _, _)
MatchSymbolsLoop(st, E, os) ==
    IF os = <<>> THEN st
    ELSE MatchSymbolsLoop(
            MatchSymbolsStep(st, Head(os), OptVal(GetByOrig(E, Head(os)).kv["symbol"])),
            E, Tail(os))

MatchSymbols(d) ==
    MatchSymbolsLoop(PassState(SymbolIndex(d.entities)), d.entities,
        OrigScan({e \in OrigUnmatched(d.entities) : e.kv["symbol"] # {}}))

----------------------------------------------------------------------------
(* get_matches_for_type_and_label and match_functions *)

\* types.type of (img, addr) through the LEFT JOIN: {} when there is no row
TypeOf(T, img, addr) == {t[3] : t \in {x \in T : x[1] = img /\ x[2] = addr}}

\* The WHERE clause of the candidates CTE.  AND binds tighter than OR:
\*   t.type is null or (t.type = ? AND (unmatched on its side))
CandidateWhere(E, c, entity_type) ==
    \/ c.type = {}
    \/ /\ c.type = {entity_type}
       /\ \/ (c.img = 0 /\ c.addr \notin Matched0(E))
          \/ (c.img = 1 /\ c.addr \notin Matched1(E))

\* The candidates CTE without its window columns
Candidates(d, entity_type) ==
    {c \in {[img |-> l[1], addr |-> l[2], label |-> l[3],
             type |-> TypeOf(d.types, l[1], l[2])] : l \in d.labels} :
        CandidateWhere(d.entities, c, entity_type)}

\* row_number() over (partition by img, label order by addr)
Nth(C, c) ==
    Cardinality({x \in C : x.img = c.img /\ x.label = c.label /\ x.addr <= c.addr})

\* count(label) over (partition by img, label)
Cnt(C, c) == Cardinality({x \in C : x.img = c.img /\ x.label = c.label})

\* The join of the candidates of the two images: the rows the query yields,
\* <<orig_addr, recomp_addr, label, is_unique>>
JoinCandidates(C) ==
    {<<p[1].addr, p[2].addr, p[1].label, Cnt(C, p[1]) = 1 /\ Cnt(C, p[2]) = 1>> :
        p \in {q \in C \X C :
            /\ q[1].img = 0 /\ q[2].img = 1
            /\ q[1].label = q[2].label
            /\ Nth(C, q[1]) = Nth(C, q[2])
            /\ (q[1].type # {} \/ q[2].type # {})}}

GetMatchesForTypeAndLabel(d, entity_type) ==
    JoinCandidates(Candidates(d, entity_type))

\* `if not is_unique: report(AMBIGUOUS_MATCH)`
ReportAmbiguous(st, m) ==
    IF ~m[4] THEN Report(st, "AMBIGUOUS_MATCH", m[1]) ELSE st

\* The loop body of match_functions for one yielded row
MatchFunctionsStep(st, m) == PassMatch(ReportAmbiguous(st, m), m[1], m[2])

\* The query has no ORDER BY; a row has one label and one rank, so no two
\* yielded rows share an address and the order of the batch.match calls does
\* not matter.  The rows are taken by orig address.
RECURSIVE MatchFunctionsLoop(_, _, _)
MatchFunctionsLoop(st, M, ks) ==
    IF ks = <<>> THEN st
    ELSE MatchFunctionsLoop(
            MatchFunctionsStep(st, CHOOSE m \in M : m[1] = Head(ks)), M, Tail(ks))

MatchFunctionsOver(M) ==
    MatchFunctionsLoop(PassState(EmptyMap), M, SortedSeq({m[1] : m \in M}))

MatchFunctions(d) == MatchFunctionsOver(GetMatchesForTypeAndLabel(d, "FUNCTION"))

----------------------------------------------------------------------------
(* match_vtables *)

\* Text is a sequence of tokens.  VFTABLE stands for the literal piece
\* ::`vftable' of the two f-strings, FOR_OPEN for {for ` and FOR_CLOSE for '}
VFTABLE == "::vftable"
FOR_OPEN == "{for "
FOR_CLOSE == "}"

\* f"{class_name}::`vftable'"
BareVftable(class_name) == class_name \o <<VFTABLE>>

\* f"{class_name}::`vftable'{{for `{for_name}'}}"
ForVftable(class_name, for_name) ==
    class_name \o <<VFTABLE, FOR_OPEN>> \o for_name \o <<FOR_CLOSE>>

RECURSIVE VtableIndexAdd(_, _, _)
VtableIndexAdd(idx, E, rs) ==
    IF rs = <<>> THEN idx
    ELSE VtableIndexAdd(
            IndexAdd(idx, OptVal(GetByRecomp(E, Head(rs)).kv["name"]), Head(rs)),
            E, Tail(rs))

\* The first loop: the index name -> [recomp_addr] over the unmatched recomp
\* entities of type VTABLE
VtableIndex(E) ==
    VtableIndexAdd(EmptyMap, E,
        RecompScan({e \in RecompUnmatched(E) :
                        e.kv["name"] # {} /\ e.kv["type"] = {"VTABLE"}}))

\* `if base_class is None or base_class == class_name:`
TryBareFirstAlways(class_name, base_class) == TRUE

TryBareFirst(class_name, base_class) ==
    base_class = {} \/ base_class = {class_name}

\* `for_name = base_class if base_class is not None else class_name`
ForName(class_name, base_class) ==
    IF base_class # {} THEN OptVal(base_class) ELSE class_name

\* The loop body of match_vtables for one row of orig_unmatched
MatchVtablesStep(st, orig_addr, class_name, base_class) ==
    IF /\ TryBareFirst(class_name, base_class)
       /\ IndexHas(st.idx, BareVftable(class_name))
    THEN PopMatch(st, orig_addr, BareVftable(class_name))
    ELSE IF IndexHas(st.idx, ForVftable(class_name, ForName(class_name, base_class)))
    THEN PopMatch(st, orig_addr,
                  ForVftable(class_name, ForName(class_name, base_class)))
    ELSE Report(st, "NO_MATCH", orig_addr)

RECURSIVE MatchVtablesLoop(_, _, _)
MatchVtablesLoop(st, E, os) ==
    IF os = <<>> THEN st
    ELSE MatchVtablesLoop(
            MatchVtablesStep(st, Head(os),
                             OptVal(GetByOrig(E, Head(os)).kv["name"]),
                             GetByOrig(E, Head(os)).kv["base_class"]),
            E, Tail(os))

MatchVtables(d) ==
    MatchVtablesLoop(PassState(VtableIndex(d.entities)), d.entities,
        OrigScan({e \in OrigUnmatched(d.entities) :
                        e.kv["name"] # {} /\ e.kv["type"] = {"VTABLE"}}))

----------------------------------------------------------------------------
(* match_static_variables *)

\* LIKE compares ASCII letters without regard to case
LowerCase(t) == IF t = "G" THEN "g" ELSE t

\* sub occurs in text s at position i, as LIKE compares
OccursAt(s, sub, i) ==
    /\ i + Len(sub) - 1 <= Len(s)
    /\ \A k \in 1..Len(sub) : LowerCase(s[i + k - 1]) = LowerCase(sub[k])

\* s LIKE '%' || a || '%' || b || '%' (a and b hold no wildcard): a occurs
\* in s and b occurs after the end of that occurrence
LikeBoth(s, a, b) ==
    \E i, j \in 1..(Len(s) + 1) :
        OccursAt(s, a, i) /\ OccursAt(s, b, j) /\ j >= i + Len(a)

\* The inner query: the rows of recomp_unmatched whose type is DATA or null
\* and whose symbol is LIKE the pattern, in the view's order
StaticCandidates(E, variable_name, function_symbol) ==
    RecompScan({e \in RecompUnmatched(E) :
        /\ e.kv["type"] \in {{"DATA"}, {}}
        /\ e.kv["symbol"] # {}
        /\ LikeBoth(OptVal(e.kv["symbol"]), variable_name, function_symbol)})

\* json_extract(func.kvstore, '$.symbol') through the LEFT JOIN on
\* parent_function = func.orig_addr
ParentSymbol(E, var) ==
    IF var.kv["parent_function"] = {} THEN {}
    ELSE GetByOrig(E, OptVal(var.kv["parent_function"])).kv["symbol"]

\* The inner `for ... break ... else` over the rows found
MatchFirstFound(st, variable_addr, found) ==
    IF found # <<>>
    THEN PassMatch(st, variable_addr, Head(found))
    ELSE ReportMsg(st, "NO_MATCH", variable_addr, "Failed to match static variable")

\* The loop body of match_static_variables for one static variable
MatchStaticStep(E, st, var) ==
    IF ParentSymbol(E, var) = {}
    THEN ReportMsg(st, "NO_MATCH", var.orig, "No function for static variable")
    ELSE MatchFirstFound(st, var.orig,
            StaticCandidates(E, OptVal(var.kv["name"]), OptVal(ParentSymbol(E, var))))

RECURSIVE MatchStaticLoop(_, _, _)
MatchStaticLoop(st, E, os) ==
    IF os = <<>> THEN st
    ELSE MatchStaticLoop(MatchStaticStep(E, st, GetByOrig(E, Head(os))), E, Tail(os))

MatchStaticVariables(d) ==
    MatchStaticLoop(PassState(EmptyMap), d.entities,
        OrigScan({e \in OrigUnmatched(d.entities) :
                        e.kv["static_var"] = {TRUE} /\ e.kv["name"] # {}}))

----------------------------------------------------------------------------
(* match_variables *)

\* The first loop: the index name -> [recomp_addr] over the unmatched recomp
\* entities that have a name and whose type is DATA or null.  The loop body
\* is that of match_vtables: index.add(name, recomp_addr).
VarNameIndex(E) ==
    VtableIndexAdd(EmptyMap, E,
        RecompScan({e \in RecompUnmatched(E) :
                        e.kv["name"] # {} /\ e.kv["type"] \in {{"DATA"}, {}}}))

\* The loop body of match_variables for one row of orig_unmatched
MatchVariablesStep(st, orig_addr, name) ==
    IF IndexHas(st.idx, name)
    THEN PopMatch(st, orig_addr, name)
    ELSE Report(st, "NO_MATCH", orig_addr)

RECURSIVE MatchVariablesLoop(_, _, _)
MatchVariablesLoop(st, E, os) ==
    IF os = <<>> THEN st
    ELSE MatchVariablesLoop(
            MatchVariablesStep(st, Head(os), OptVal(GetByOrig(E, Head(os)).kv["name"])),
            E, Tail(os))

\* coalesce(json_extract(kvstore, '$.static_var'), 0) != 1
MatchVariables(d) ==
    MatchVariablesLoop(PassState(VarNameIndex(d.entities)), d.entities,
        OrigScan({e \in OrigUnmatched(d.entities) :
                        /\ e.kv["name"] # {}
                        /\ e.kv["type"] = {"DATA"}
                        /\ e.kv["static_var"] # {TRUE}}))

----------------------------------------------------------------------------
(* read_strings and match_strings *)

\* read_func raised: the `except Exception: pass` branch of read_strings
READ_ERROR == "read error"

\* The addresses the SELECT of read_strings yields for the image img
StringAddrs(E, img) ==
    {IF img = 0 THEN e.orig ELSE e.recomp : e \in {x \in E : x.kv["type"] = {"STRING"}}}
        \ {NULL}

\* EntityDb.read_strings: one raw row for each address that could be read
ReadStrings(R, E, img, read_func) ==
    R \cup {<<img, a, read_func[a]>> :
                a \in {x \in StringAddrs(E, img) : read_func[x] # READ_ERROR}}

\* The candidates CTE of match_strings without its window column
StringCandidates(d) == {r \in d.raw : <<r[1], r[2], "STRING">> \in d.types}

\* A rank that partitions by the image only, not by the content
StringNthAnyData(C, r) ==
    Cardinality({x \in C : x[1] = r[1] /\ x[2] <= r[2]})

\* row_number() over (partition by r.img, data order by r.addr)
StringNth(C, r) ==
    Cardinality({x \in C : x[1] = r[1] /\ x[3] = r[3] /\ x[2] <= r[2]})

\* The rows the query of match_strings yields: <<orig_addr, recomp_addr>>
StringJoin(C) ==
    {<<q[1][2], q[2][2]>> :
        q \in {p \in C \X C : /\ p[1][1] = 0 /\ p[2][1] = 1
                               /\ p[1][3] = p[2][3]
                               /\ StringNth(C, p[1]) = StringNth(C, p[2])}}

\* `for orig_addr, recomp_addr in ...: batch.match(orig_addr, recomp_addr)`
\* over the yielded rows P.  Neither query has an ORDER BY; a row has one
\* partition and one rank, so no two rows share an address and the order
\* of the calls does not matter.  The rows are taken by orig address.
RECURSIVE MatchPairsLoop(_, _, _)
MatchPairsLoop(st, P, ks) ==
    IF ks = <<>> THEN st
    ELSE MatchPairsLoop(
            PassMatch(st, Head(ks), (CHOOSE p \in P : p[1] = Head(ks))[2]), P, Tail(ks))

MatchPairs(P) == MatchPairsLoop(PassState(EmptyMap), P, SortedSeq({p[1] : p \in P}))

MatchStrings(d) == MatchPairs(StringJoin(StringCandidates(d)))

----------------------------------------------------------------------------
(* LinesDb *)

\* LinesDb(code_files): the local source files the database knows
CodeFiles == {"a.cpp"}

\* LinesDb.__init__.  functions_map is an option: {} is None
NewLinesDb == [map |-> EmptyMap, functions |-> {}, functions_map |-> {}]

\* filenames.get(purepath.name.lower()) and purepath_to_path for paths of one
\* part: the one candidate of that name scores 1, a name that is not a code
\* file has no candidate.  The result is an option.
SourcePath(filename) == IF filename \in CodeFiles THEN {filename} ELSE {}

\* self.map.setdefault(sourcepath, []).extend(lines)
MapExtend(m, k, ls) ==
    MapPut(m, k, (IF k \in DOMAIN m THEN m[k] ELSE <<>>) \o ls)

\* LinesDb.add_lines
AddLines(L, filename, ls) ==
    IF SourcePath(filename) = {} THEN L
    ELSE [L EXCEPT !.map = MapExtend(@, OptVal(SourcePath(filename)), ls)]

\* LinesDb.add_function_starts
AddFunctionStarts(L, addrs) == [L EXCEPT !.functions = @ \cup addrs]

\* A filter that keeps every pair, function start or not
AllPairs(pairs, F) == pairs

\* [(line, addr) for line, addr in pairs if addr in self.functions]
FunctionPairs(pairs, F) == SelectSeq(pairs, LAMBDA p : p[2] \in F)

\* The dict comprehension that fills functions_map
BuildFunctionsMap(L) ==
    [filename \in DOMAIN L.map |-> FunctionPairs(L.map[filename], L.functions)]

\* A search that builds functions_map anew at every call
WithFunctionsMapRebuilt(L) == [L EXCEPT !.functions_map = {BuildFunctionsMap(L)}]

\* `if self.functions_map is None: self.functions_map = {...}`
WithFunctionsMap(L) ==
    IF L.functions_map = {}
    THEN [L EXCEPT !.functions_map = {BuildFunctionsMap(L)}]
    ELSE L

\* The order of tuples (line, addr)
PairLess(p, q) == p[1] < q[1] \/ (p[1] = q[1] /\ p[2] < q[2])

RECURSIVE InsertPair(_, _)
InsertPair(sorted, p) ==
    IF sorted = <<>> THEN <<p>>
    ELSE IF PairLess(p, Head(sorted)) THEN <<p>> \o sorted
    ELSE <<Head(sorted)>> \o InsertPair(Tail(sorted), p)

\* lines.sort()
RECURSIVE SortPairs(_)
SortPairs(pairs) ==
    IF pairs = <<>> THEN <<>>
    ELSE InsertPair(SortPairs(Tail(pairs)), Head(pairs))

\* possible_functions
PossibleFunctions(pairs, line_start, line_end) ==
    SelectSeq(pairs, LAMBDA p : line_start <= p[1] /\ p[1] <= line_end)

\* The three returns after possible_functions
SearchReturn(possible_functions) ==
    IF Len(possible_functions) = 1 THEN possible_functions[1][2] ELSE NULL

\* search_line once functions_map is there and line_end is a line: fm is
\* the functions_map.  lines.sort() sorts the list of the dict in place.
SearchSorted(L, fm, path, line_start, line_end) ==
    IF path \notin DOMAIN fm
    THEN [lines |-> L, ret |-> NULL]
    ELSE [lines |-> [L EXCEPT !.functions_map = {MapPut(fm, path, SortPairs(fm[path]))}],
          ret |-> SearchReturn(
                    PossibleFunctions(SortPairs(fm[path]), line_start, line_end))]

SearchCached(L, path, line_start, line_end) ==
    SearchSorted(L, OptVal(L.functions_map), path, line_start,
                 IF line_end = NULL THEN line_start ELSE line_end)

\* LinesDb.search_line: the LinesDb afterwards and the value returned, NULL
\* for None.  A line_end of NULL is the default None.
SearchLine(L, path, line_start, line_end) ==
    SearchCached(WithFunctionsMap(L), path, line_start, line_end)

----------------------------------------------------------------------------
(* match_ref *)

\* The address of the row e in the image img, and the generated column
\* ref_orig (img 0) or ref_recomp (img 1) as an option
SideAddr(e, img) == IF img = 0 THEN e.orig ELSE e.recomp
SideRef(e, img) == IF img = 0 THEN e.kv["ref_orig"] ELSE e.kv["ref_recomp"]

\* The join of the views orig_refs (img 0) and recomp_refs (img 1):
\* entities thunk INNER JOIN entities ref ON thunk.ref_* = ref.*_addr.
\* A comparison with a null is never true.
RefRows(E, img) ==
    {q \in E \X E : /\ SideRef(q[1], img) # {}
                     /\ SideAddr(q[2], img) # NULL
                     /\ OptVal(SideRef(q[1], img)) = SideAddr(q[2], img)}

\* row_number() over (partition by thunk.ref_* order by thunk.*_addr); a
\* null address sorts first
RefNth(V, q, img) ==
    Cardinality({x \in V : /\ SideRef(x[1], img) = SideRef(q[1], img)
                           /\ SideAddr(x[1], img) <= SideAddr(q[1], img)})

\* The rows the query of match_ref yields.  ref.rowid names the row ref.
RefJoin(V0, V1) ==
    {<<q[1][1].orig, q[2][1].recomp>> :
        q \in {p \in V0 \X V1 : /\ p[1][2] = p[2][2]
                                 /\ RefNth(V0, p[1], 0) = RefNth(V1, p[2], 1)}}

MatchRef(d) == MatchPairs(RefJoin(RefRows(d.entities, 0), RefRows(d.entities, 1)))

----------------------------------------------------------------------------
(* match_lines *)

\* What match_lines has built so far: its batch, its reports, the LinesDb
\* and whether no exception was raised
LinesPassState(L) ==
    [batch |-> EmptyBatch, events |-> <<>>, lines |-> L, ok |-> TRUE]

\* iter(value) of `for recomp_addr in lines.search_line(...)`, as an option
\* on the sequence of items.  search_line returns an int or None, and iter()
\* of either raises TypeError: there is no sequence.
ForItems(value) == {}

\* The `for ... break ... else` statement on the result res of search_line
MatchLinesFor(st, orig_addr, res) ==
    IF ForItems(res.ret) = {}
    THEN [st EXCEPT !.lines = res.lines, !.ok = FALSE]
    ELSE IF OptVal(ForItems(res.ret)) # <<>>
    THEN [st EXCEPT !.lines = res.lines,
                    !.batch = BatchSetRecompAddr(@, orig_addr,
                                                 Head(OptVal(ForItems(res.ret))))]
    ELSE Report([st EXCEPT !.lines = res.lines], "NO_MATCH", orig_addr)

\* The loop body for one row of orig_unmatched; `line + 1` of a null line
\* raises TypeError
MatchLinesStep(st, orig_addr, filename, line) ==
    IF line = {}
    THEN [st EXCEPT !.ok = FALSE]
    ELSE MatchLinesFor(st, orig_addr,
                       SearchLine(st.lines, OptVal(filename), OptVal(line) + 1, NULL))

RECURSIVE MatchLinesLoop(_, _, _)
MatchLinesLoop(st, E, os) ==
    IF os = <<>> \/ ~st.ok THEN st
    ELSE MatchLinesLoop(
            MatchLinesStep(st, Head(os), GetByOrig(E, Head(os)).kv["filename"],
                           GetByOrig(E, Head(os)).kv["line"]),
            E, Tail(os))

MatchLines(d, L) ==
    MatchLinesLoop(LinesPassState(L), d.entities,
        OrigScan({e \in OrigUnmatched(d.entities) : e.kv["type"] = {"LINE"}}))

----------------------------------------------------------------------------
(* ReccmpDb (storage.py): the table reccmp and the anchors *)

\* The three UNIQUE columns, in the order the anchors connect them
UniqueCols == <<"source", "target", "symbol">>

\* The keys of kwstore the clients use
StoreKeys == {"test"}

\* kwstore default '{}'
EmptyStore == [k \in StoreKeys |-> {}]

\* A row whose columns are all NULL.  A column is an option: {} is NULL.
NewThing == [source |-> {}, target |-> {}, symbol |-> {}, kwstore |-> EmptyStore]

\* WHERE col = val: the rows of T that hold the value in the column
ThingsAt(T, col, val) == {r \in T : val # {} /\ r[col] = val}

\* The outcome of one SQL statement: the table, and ok = FALSE when the
\* statement raised sqlite3.IntegrityError and left the table as it was
Done(T) == [rows |-> T, ok |-> TRUE]
Failed(T) == [rows |-> T, ok |-> FALSE]

\* UPDATE reccmp SET new_col = coalesce(new_col, ?) on the row r of T
ConnectRow(T, r, new_col, new_val) ==
    IF r[new_col] # {} THEN Done(T)
    ELSE IF ThingsAt(T, new_col, new_val) # {} THEN Failed(T)
    ELSE Done((T \ {r}) \cup {[r EXCEPT ![new_col] = new_val]})

\* INSERT INTO reccmp (new_col, anchor_col) VALUES (?,?)
ConnectInsert(T, anchor_col, anchor_val, new_col, new_val) ==
    IF ThingsAt(T, new_col, new_val) # {} THEN Failed(T)
    ELSE Done(T \cup {[NewThing EXCEPT ![anchor_col] = anchor_val, ![new_col] = new_val]})

\* do_connect_query
DoConnectQuery(T, anchor_col, anchor_val, new_col, new_val) ==
    IF new_val = {} THEN Done(T)
    ELSE IF ThingsAt(T, anchor_col, anchor_val) # {}
    THEN ConnectRow(T, OptVal(ThingsAt(T, anchor_col, anchor_val)), new_col, new_val)
    ELSE ConnectInsert(T, anchor_col, anchor_val, new_col, new_val)

\* json_set(kwstore, keys...) and, for patch, json_insert(kwstore, keys...)
StoreSet(store, patch, kwargs) ==
    [k \in StoreKeys |->
        IF k \in DOMAIN kwargs /\ (~patch \/ store[k] = {}) THEN {kwargs[k]} ELSE store[k]]

\* do_update_query
DoUpdateQuery(T, anchor_col, anchor_val, patch, kwargs) ==
    IF ThingsAt(T, anchor_col, anchor_val) # {}
    THEN {IF r[anchor_col] = anchor_val
          THEN [r EXCEPT !.kwstore = StoreSet(r.kwstore, patch, kwargs)] ELSE r : r \in T}
    ELSE T \cup {[NewThing EXCEPT ![anchor_col] = anchor_val,
                                  !.kwstore = StoreSet(EmptyStore, FALSE, kwargs)]}

\* The two columns AnchorSource / AnchorTarget / AnchorSymbol connect
OtherCols(anchor_col) == SelectSeq(UniqueCols, LAMBDA c : c # anchor_col)

\* The end of set(): the second do_connect_query, then do_update_query
SetTail(first, anchor_col, anchor_val, new_col, new_val, kwargs) ==
    IF ~first.ok THEN first
    ELSE IF ~DoConnectQuery(first.rows, anchor_col, anchor_val, new_col, new_val).ok
    THEN Failed(first.rows)
    ELSE Done(DoUpdateQuery(
            DoConnectQuery(first.rows, anchor_col, anchor_val, new_col, new_val).rows,
            anchor_col, anchor_val, FALSE, kwargs))

\* Anchor*.set(source, target, symbol, **kwargs): args holds the three
\* parameters; the one of the anchor's own column is not used
AnchorSet(T, anchor_col, anchor_val, args, kwargs) ==
    SetTail(DoConnectQuery(T, anchor_col, anchor_val, OtherCols(anchor_col)[1],
                           args[OtherCols(anchor_col)[1]]),
            anchor_col, anchor_val, OtherCols(anchor_col)[2],
            args[OtherCols(anchor_col)[2]], kwargs)

----------------------------------------------------------------------------
(* The preprocessor (parser/preprocessor.py).  A token is a record
   [type, line, value]: the tuple (type, (line, column), value) without the
   column.  The token types are those the generator is written against. *)

Token(type, line, value) == [type |-> type, line |-> line, value |-> value]

\* The locals of preprocessor() before the first token; out collects what
\* the generator yields, ok is FALSE once it has ended with an exception
NewPreprocessor ==
    [ifdef_level |-> 0, context |-> EmptyMap, stack |-> <<>>, directive |-> "",
     mode |-> "WAITING", token_stack |-> <<>>, out |-> <<>>, ok |-> TRUE]

\* evaluate
Evaluate(tokens) == tokens[1].value = "1"

\* The branch `else: variable = token_stack[0][2]` for the directive held
CollectEnd(p, variable) ==
    CASE p.directive = "#define" ->
            [p EXCEPT !.context = MapPut(@, variable, Evaluate(p.token_stack))]
      [] p.directive = "#undef" -> [p EXCEPT !.context = MapDel(@, variable)]
      [] p.directive = "#ifdef" ->
            [p EXCEPT !.mode = IF variable \in DOMAIN p.context THEN "ALLOW" ELSE "DELAY"]
      [] p.directive = "#ifndef" ->
            [p EXCEPT !.mode = IF variable \notin DOMAIN p.context THEN "ALLOW" ELSE "DELAY"]
      [] OTHER -> p

\* A NEWLINE token in mode COLLECT or DELAY_COLLECT; token_stack[0] of an
\* empty stack raises IndexError
CollectNewline(p) ==
    IF p.token_stack = <<>> THEN [p EXCEPT !.ok = FALSE]
    ELSE IF p.directive = "#if"
    THEN [p EXCEPT !.mode = IF Evaluate(p.token_stack) THEN "ALLOW" ELSE "DELAY",
                   !.token_stack = <<>>]
    ELSE [CollectEnd(p, p.token_stack[1].value) EXCEPT !.token_stack = <<>>]

\* The loop body for a token that is not a PREPROCESSOR token
PassOrCollect(p, token) ==
    IF p.mode \in {"WAITING", "ALLOW"} THEN [p EXCEPT !.out = Append(@, token)]
    ELSE IF p.mode \in {"COLLECT", "DELAY_COLLECT"}
    THEN IF token.type = "NEWLINE" THEN CollectNewline(p)
         ELSE [p EXCEPT !.token_stack = Append(@, token)]
    ELSE p

\* stack and stack[-1] == level
TopIs(p, level) == p.stack # <<>> /\ p.stack[Len(p.stack)] = level

\* #ifdef, #ifndef, #if
OpenConditional(p, value) ==
    IF p.mode \in {"WAITING", "ALLOW"}
    THEN [p EXCEPT !.ifdef_level = @ + 1, !.stack = Append(@, p.ifdef_level + 1),
                   !.directive = value, !.mode = "COLLECT"]
    ELSE [p EXCEPT !.ifdef_level = @ + 1]

\* #endif: the level is lowered before it is compared with the stack
CloseConditional(p) ==
    IF p.ifdef_level - 1 < 0 THEN [p EXCEPT !.ifdef_level = @ - 1, !.ok = FALSE]
    ELSE IF TopIs(p, p.ifdef_level - 1)
    THEN [p EXCEPT !.ifdef_level = @ - 1,
                   !.stack = SubSeq(@, 1, Len(@) - 1), !.mode = "ALLOW"]
    ELSE [p EXCEPT !.ifdef_level = @ - 1]

\* The loop body for a PREPROCESSOR token
Directive(p, value) ==
    CASE value \in {"#define", "#undef"} ->
            IF p.mode \in {"WAITING", "ALLOW"}
            THEN [p EXCEPT !.directive = value, !.mode = "COLLECT"] ELSE p
      [] value \in {"#ifdef", "#ifndef", "#if"} -> OpenConditional(p, value)
      [] value = "#elif" ->
            IF ~TopIs(p, p.ifdef_level) THEN p
            ELSE [p EXCEPT !.directive = "#if",
                           !.mode = CASE p.mode = "ALLOW" -> "DONE"
                                      [] p.mode = "DELAY" -> "DELAY_COLLECT"
                                      [] OTHER -> p.mode]
      [] value = "#else" ->
            IF ~TopIs(p, p.ifdef_level) THEN p
            ELSE [p EXCEPT !.mode = CASE p.mode = "ALLOW" -> "DONE"
                                      [] p.mode = "DELAY" -> "ALLOW"
                                      [] OTHER -> p.mode]
      [] value = "#endif" -> CloseConditional(p)
      [] OTHER -> p

\* One pass of `for token in tokens:`; nothing runs after an exception
PreprocessToken(p, token) ==
    IF ~p.ok THEN p
    ELSE IF token.type # "PREPROCESSOR" THEN PassOrCollect(p, token)
    ELSE Directive(p, token.value)

\* The loop over the tokens of one line
RECURSIVE Preprocess(_, _)
Preprocess(p, tokens) ==
    IF tokens = <<>> THEN p
    ELSE Preprocess(PreprocessToken(p, Head(tokens)), Tail(tokens))

----------------------------------------------------------------------------
(* DecompParser (parser/parser.py).  The regular expressions read the text
   of a line comment as its words, "//" first; a name made by joining token
   values is the sequence of those values, <<>> for the empty string. *)

\* The words of the line comments of the files read below
CommentWords(text) ==
    CASE text = "// FUNCTION: HELLO 0x1234" -> <<"//", "FUNCTION:", "HELLO", "0x1234">>
      [] text = "// STUB: TEST 0x5555" -> <<"//", "STUB:", "TEST", "0x5555">>
      [] text = "// GLOBAL: HELLO 0x2000" -> <<"//", "GLOBAL:", "HELLO", "0x2000">>
      [] text = "// VTABLE: HELLO 0x3000" -> <<"//", "VTABLE:", "HELLO", "0x3000">>
      [] text = "// test" -> <<"//", "test">>
      [] OTHER -> <<text>>

\* The annotation a comment holds, as an option: // TYPE: MODULE OFFSET
MarkerTypes ==
    {"FUNCTION:", "STUB:", "SYNTHETIC:", "TEMPLATE:", "LIBRARY:", "GLOBAL:", "STRING:",
     "VTABLE:"}

MatchMarker(text) ==
    IF Len(text) = 4 /\ text[1] = "//" /\ text[2] \in MarkerTypes
    THEN {[type |-> text[2], module |-> text[3], offset |-> text[4], extra |-> {}]}
    ELSE {}

IsRegularFunction(m) == m.type \in {"FUNCTION:", "STUB:"}
IsExplicitByname(m) == m.type \in {"SYNTHETIC:", "TEMPLATE:", "LIBRARY:"}
IsVariable(m) == m.type = "GLOBAL:"
IsString(m) == m.type = "STRING:"
IsVtable(m) == m.type = "VTABLE:"
AllowedInFunc(m) == IsVariable(m) \/ IsString(m)

MarkerCategory(m) ==
    CASE IsVtable(m) -> "VTABLE"
      [] IsVariable(m) -> "VARIABLE"
      [] IsString(m) -> "STRING"
      [] IsRegularFunction(m) \/ IsExplicitByname(m) -> "FUNCTION"
      [] OTHER -> "ADDRESS"

MarkerKey(m) == <<MarkerCategory(m), m.module, m.extra>>

\* get_synthetic_name: the rest of a comment that has white space after //
GetSyntheticName(text) == IF Len(text) >= 2 THEN {Tail(text)} ELSE {}

\* get_class_name on a comment: // class NAME or // struct NAME
GetClassName(text) ==
    IF Len(text) >= 3 /\ text[2] \in {"class", "struct"} THEN {<<text[3]>>} ELSE {}

\* DecompParser.__init__; level, scopes, pending and cstate are the
\* CurlyManager's _level, _stack, _pending and _state
NewParser ==
    [state |-> "SEARCH", symbols |-> <<>>, alerts |-> <<>>, line_number |-> 0,
     token_stack |-> <<>>, level |-> 0, scopes |-> <<>>, pending |-> {}, cstate |-> 0,
     fun_markers |-> <<>>, var_markers |-> <<>>, tbl_markers |-> <<>>,
     curly_indent_stops |-> 0, function_start |-> 0, function_sig |-> <<>>]

\* CurlyManager._pop: the while loop over the stack
RECURSIVE PopScopes(_, _)
PopScopes(scopes, level) ==
    IF scopes # <<>> /\ scopes[Len(scopes)][2] >= level
    THEN PopScopes(SubSeq(scopes, 1, Len(scopes) - 1), level)
    ELSE scopes

CurlyPop(P, level) == [P EXCEPT !.level = level, !.scopes = PopScopes(@, level)]

\* CurlyManager.read_token
CurlyReadToken(P, token) ==
    IF token.type = "OPERATOR"
    THEN CASE token.value = "{" ->
                [P EXCEPT !.cstate = 0, !.level = @ + 1, !.pending = {},
                          !.scopes = IF P.pending # {}
                                     THEN Append(@, <<OptVal(P.pending), P.level>>) ELSE @]
           [] token.value = "}" ->
                CurlyPop([P EXCEPT !.cstate = 0], IF P.level > 0 THEN P.level - 1 ELSE P.level)
           [] token.value = ";" -> [P EXCEPT !.cstate = 0, !.pending = {}]
           [] OTHER -> [P EXCEPT !.cstate = 0]
    ELSE IF token.type = "IDENTIFIER"
    THEN IF P.cstate = 0
         THEN IF token.value \in {"class", "struct", "namespace"}
              THEN [P EXCEPT !.cstate = 1] ELSE P
         ELSE IF P.cstate = 1 THEN [P EXCEPT !.pending = {token.value}] ELSE P
    ELSE P

\* CurlyManager.get_prefix: the names that "::" joins
GetPrefix(P, name) ==
    [i \in DOMAIN P.scopes |-> <<P.scopes[i][1]>>]
        \o (IF \E i \in DOMAIN P.scopes : <<P.scopes[i][1]>> = name THEN <<>> ELSE <<name>>)

SyntaxWarning(P, code) ==
    [P EXCEPT !.alerts = Append(@, [line_number |-> P.line_number, code |-> code])]

Recover(P) ==
    [P EXCEPT !.state = "SEARCH", !.fun_markers = <<>>, !.var_markers = <<>>,
              !.tbl_markers = <<>>]

SyntaxError(P, code) == Recover(SyntaxWarning(P, code))

\* MarkerDict.insert: the dict afterwards; an existing key is kept
HasKey(markers, key) == \E i \in DOMAIN markers : MarkerKey(markers[i]) = key

MarkerInsert(markers, m) ==
    IF HasKey(markers, MarkerKey(m)) THEN markers ELSE Append(markers, m)

DuplicateWarning(P, markers, m) ==
    IF HasKey(markers, MarkerKey(m)) THEN SyntaxWarning(P, "DUPLICATE_MODULE") ELSE P

FunctionMarker(P, m) ==
    [DuplicateWarning(P, P.fun_markers, m)
        EXCEPT !.fun_markers = MarkerInsert(@, m), !.state = "FUNCTION_PENDING"]

NamerefMarker(P, m) ==
    [DuplicateWarning(P, P.fun_markers, m)
        EXCEPT !.fun_markers = MarkerInsert(@, m), !.state = "FUNCTION_NAMEREF"]

VtableMarker(P, m) ==
    [DuplicateWarning(P, P.tbl_markers, m)
        EXCEPT !.tbl_markers = MarkerInsert(@, m), !.state = "VTABLE_PENDING"]

VariableMarker(P, m) ==
    [DuplicateWarning(P, P.var_markers, m)
        EXCEPT !.var_markers = MarkerInsert(@, m),
               !.state = IF P.state \in {"IN_FUNC", "IN_FUNC_DATA_PENDING"}
                         THEN "IN_FUNC_DATA_PENDING" ELSE "DATA_PENDING"]

\* A function that is recorded for every pending function marker
FunctionDoneKeepsMarkers(P, lookup_by_name, end_line) ==
    [P EXCEPT
        !.symbols = @ \o [i \in DOMAIN P.fun_markers |->
                            [kind |-> "function", type |-> P.fun_markers[i].type,
                             line_number |-> P.function_start,
                             module |-> P.fun_markers[i].module,
                             offset |-> P.fun_markers[i].offset,
                             name |-> P.function_sig, lookup_by_name |-> lookup_by_name,
                             end_line |-> end_line]],
        !.curly_indent_stops = 0,
        !.state = "SEARCH"]

\* DecompParser._function_done; end_line is line_number, or one less when
\* the end of the function was missed
FunctionDone(P, lookup_by_name, end_line) ==
    [FunctionDoneKeepsMarkers(P, lookup_by_name, end_line) EXCEPT !.fun_markers = <<>>]

\* DecompParser._vtable_done
VtableDone(P, class_name) ==
    [P EXCEPT
        !.symbols = @ \o [i \in DOMAIN P.tbl_markers |->
                            [kind |-> "vtable", type |-> P.tbl_markers[i].type,
                             line_number |-> P.line_number,
                             module |-> P.tbl_markers[i].module,
                             offset |-> P.tbl_markers[i].offset,
                             name |-> GetPrefix(P, class_name),
                             base_class |-> P.tbl_markers[i].extra]],
        !.tbl_markers = <<>>,
        !.state = "SEARCH"]

\* fun_markers.query(MarkerCategory.FUNCTION, module): the offset, as an option
ParentFunction(P, module) ==
    {P.fun_markers[i].offset : i \in {j \in DOMAIN P.fun_markers :
        MarkerKey(P.fun_markers[j]) = <<"FUNCTION", module, {}>>}}

\* The body of the loop of _variable_done for the marker m
VariableSymbol(P, m, variable_name, string_value, is_static) ==
    IF IsString(m)
    THEN [P EXCEPT !.symbols = Append(@,
            [kind |-> "string", type |-> m.type, line_number |-> P.line_number,
             module |-> m.module, offset |-> m.offset, name |-> string_value])]
    ELSE IF is_static /\ ParentFunction(P, m.module) = {}
    THEN SyntaxWarning(P, "ORPHANED_STATIC_VARIABLE")
    ELSE [P EXCEPT !.symbols = Append(@,
            [kind |-> "variable", type |-> m.type, line_number |-> P.line_number,
             module |-> m.module, offset |-> m.offset,
             name |-> IF variable_name = {} THEN <<>> ELSE GetPrefix(P, OptVal(variable_name)),
             is_static |-> is_static,
             parent_function |-> IF is_static THEN ParentFunction(P, m.module) ELSE {}])]

RECURSIVE VariableSymbols(_, _, _, _, _)
VariableSymbols(P, markers, variable_name, string_value, is_static) ==
    IF markers = <<>> THEN P
    ELSE VariableSymbols(
            VariableSymbol(P, Head(markers), variable_name, string_value, is_static),
            Tail(markers), variable_name, string_value, is_static)

\* DecompParser._variable_done; the names are options
VariableDone(P, variable_name, string_value) ==
    IF variable_name = {} /\ string_value = {}
    THEN SyntaxError(P, "NO_SUITABLE_NAME")
    ELSE [VariableSymbols(P, P.var_markers, variable_name, string_value,
                          P.state = "IN_FUNC_DATA_COLLECT")
            EXCEPT !.var_markers = <<>>,
                   !.state = IF P.state = "IN_FUNC_DATA_COLLECT" THEN "IN_FUNC" ELSE "SEARCH"]

\* _handle_marker after the test for a missed end of function
DispatchMarker(P, m) ==
    CASE IsRegularFunction(m) ->
            IF P.state \in {"SEARCH", "FUNCTION_PENDING"} THEN FunctionMarker(P, m)
            ELSE SyntaxError(P, "INCOMPATIBLE_MARKER")
      [] IsExplicitByname(m) ->
            IF P.fun_markers = <<>> \/ P.fun_markers[1].type = m.type
            THEN NamerefMarker(P, m)
            ELSE SyntaxError(P, "INCOMPATIBLE_MARKER")
      [] IsString(m) \/ IsVariable(m) ->
            IF P.state \in {"SEARCH", "DATA_PENDING", "IN_FUNC", "IN_FUNC_DATA_PENDING"}
            THEN VariableMarker(P, m)
            ELSE SyntaxError(P, "INCOMPATIBLE_MARKER")
      [] IsVtable(m) ->
            IF P.state \in {"SEARCH", "VTABLE_PENDING"} THEN VtableMarker(P, m)
            ELSE SyntaxError(P, "INCOMPATIBLE_MARKER")
      [] OTHER -> SyntaxWarning(P, "BOGUS_MARKER")

\* DecompParser._handle_marker
HandleMarker(P, m) ==
    IF P.state = "FUNCTION_COLLECT" THEN SyntaxError(P, "UNEXPECTED_MARKER")
    ELSE IF P.state = "IN_FUNC" /\ ~AllowedInFunc(m)
    THEN DispatchMarker(
            FunctionDone(SyntaxWarning(P, "MISSED_END_OF_FUNCTION"), FALSE, P.line_number - 1),
            m)
    ELSE DispatchMarker(P, m)

\* _get_function_name: the loop over the reversed token stack, from index i
RECURSIVE FunctionNameFrom(_, _, _, _)
FunctionNameFrom(ts, i, recording, substack) ==
    IF i = 0 THEN substack
    ELSE IF recording
    THEN IF substack # <<>>
         THEN IF substack[Len(substack)].type = ts[i].type THEN substack
              ELSE FunctionNameFrom(ts, i - 1, recording, <<ts[i]>> \o substack)
         ELSE FunctionNameFrom(ts, i - 1, recording,
                               IF ts[i].type = "IDENTIFIER" THEN <<ts[i]>> ELSE substack)
    ELSE FunctionNameFrom(ts, i - 1, ts[i].value = "(", substack)

Values(tokens) == [i \in DOMAIN tokens |-> tokens[i].value]

GetFunctionName(ts) == Values(FunctionNameFrom(ts, Len(ts), FALSE, <<>>))

\* _get_vtable_name: the same loop for a class
VtableCleared(tok, substack) == IF tok.value = ":" THEN <<>> ELSE substack

RECURSIVE VtableNameFrom(_, _, _)
VtableNameFrom(ts, i, substack) ==
    IF i = 0 THEN substack
    ELSE IF VtableCleared(ts[i], substack) # <<>>
    THEN IF ts[i].value \in {"class", "struct"} THEN VtableCleared(ts[i], substack)
         ELSE VtableNameFrom(ts, i - 1, <<ts[i]>> \o VtableCleared(ts[i], substack))
    ELSE VtableNameFrom(ts, i - 1, IF ts[i].type = "IDENTIFIER" THEN <<ts[i]>> ELSE <<>>)

GetVtableName(ts) == Values(VtableNameFrom(ts, Len(ts), <<>>))

\* get_variable_name on the squashed stack: the first name that "=", "[" or
\* ")(" follows (the ";" that ends the statement is not on the stack)
VariableNameAt(ts, i) ==
    /\ ts[i].type = "IDENTIFIER"
    /\ \/ i + 1 <= Len(ts) /\ ts[i + 1].value \in {"=", "["}
       \/ i + 2 <= Len(ts) /\ ts[i + 1].value = ")" /\ ts[i + 2].value = "("

GetVariableName(ts) ==
    IF \E i \in DOMAIN ts : VariableNameAt(ts, i)
    THEN {<<ts[CHOOSE i \in DOMAIN ts :
                /\ VariableNameAt(ts, i)
                /\ \A j \in DOMAIN ts : VariableNameAt(ts, j) => i <= j].value>>}
    ELSE {}

\* get_string_contents: the first string on the stack
GetStringContents(ts) ==
    IF \E i \in DOMAIN ts : ts[i].type = "STRING"
    THEN {ts[CHOOSE i \in DOMAIN ts :
                /\ ts[i].type = "STRING"
                /\ \A j \in DOMAIN ts : ts[j].type = "STRING" => i <= j].value}
    ELSE {}

\* read_token for a LINE_COMMENT token that holds no marker
PlainComment(P, text) ==
    CASE P.state \in {"FUNCTION_PENDING", "FUNCTION_NAMEREF"} ->
            IF GetSyntheticName(text) = {} THEN SyntaxError(P, "BAD_NAMEREF")
            ELSE FunctionDone([P EXCEPT !.function_sig = OptVal(GetSyntheticName(text)),
                                        !.function_start = P.line_number],
                              TRUE, P.line_number)
      [] P.state \in {"DATA_PENDING", "IN_FUNC_DATA_PENDING"} ->
            IF GetSyntheticName(text) = {} THEN P
            ELSE VariableDone(P, GetSyntheticName(text), {})
      [] P.state = "VTABLE_PENDING" ->
            IF GetClassName(text) = {} THEN P
            ELSE VtableDone(P, OptVal(GetClassName(text)))
      [] OTHER -> P

\* read_token for a LINE_COMMENT token: in the four COLLECT states the
\* method returns before it looks for a marker
LineComment(P, text) ==
    IF P.state \in {"FUNCTION_COLLECT", "DATA_COLLECT", "IN_FUNC_DATA_COLLECT",
                    "VTABLE_COLLECT"}
    THEN P
    ELSE IF MatchMarker(text) # {} THEN HandleMarker(P, OptVal(MatchMarker(text)))
    ELSE PlainComment(P, text)

\* "We read a code (non-comment) token, so flip to collect state."
Collecting(state) ==
    CASE state = "FUNCTION_PENDING" -> "FUNCTION_COLLECT"
      [] state = "DATA_PENDING" -> "DATA_COLLECT"
      [] state = "IN_FUNC_DATA_PENDING" -> "IN_FUNC_DATA_COLLECT"
      [] state = "VTABLE_PENDING" -> "VTABLE_COLLECT"
      [] OTHER -> state

\* The ";" that ends a variable in DATA_COLLECT / IN_FUNC_DATA_COLLECT
VariableEnd(P) ==
    IF /\ \E i \in DOMAIN P.var_markers : IsVariable(P.var_markers[i])
       /\ \E i \in DOMAIN P.token_stack : P.token_stack[i].value = "return"
    THEN SyntaxError(P, "GLOBAL_NOT_VARIABLE")
    ELSE [VariableDone(P, GetVariableName(P.token_stack), GetStringContents(P.token_stack))
            EXCEPT !.token_stack = <<>>]

Push(P, token) == [P EXCEPT !.token_stack = Append(@, token)]

\* read_token from the `#####` line on: a code token in the state P.state
CodeToken(P, token) ==
    CASE P.state = "FUNCTION_COLLECT" ->
            IF token.value = ";" THEN SyntaxError(P, "NO_IMPLEMENTATION")
            ELSE IF token.value = "{"
            THEN [(IF GetFunctionName(P.token_stack) = <<>>
                   THEN SyntaxWarning(P, "MISSED_START_OF_FUNCTION") ELSE P)
                    EXCEPT !.function_sig = GetFunctionName(P.token_stack),
                           !.function_start = token.line,
                           !.curly_indent_stops = P.level - 1,
                           !.state = "IN_FUNC",
                           !.token_stack = <<>>]
            ELSE Push(P, token)
      [] P.state = "IN_FUNC" ->
            IF token.value = "}" /\ P.level <= P.curly_indent_stops
            THEN FunctionDone(P, FALSE, P.line_number) ELSE P
      [] P.state \in {"DATA_COLLECT", "IN_FUNC_DATA_COLLECT"} ->
            IF token.value = ";" THEN VariableEnd(P)
            ELSE IF token.type \notin {"LINE_COMMENT", "BLOCK_COMMENT"} THEN Push(P, token)
            ELSE P
      [] P.state = "VTABLE_COLLECT" ->
            IF token.value = ";" THEN SyntaxError(P, "NO_IMPLEMENTATION")
            ELSE IF token.value = "{"
            THEN [VtableDone(P, GetVtableName(P.token_stack)) EXCEPT !.token_stack = <<>>]
            ELSE Push(P, token)
      [] OTHER -> P

\* read_token after curly.read_token
AfterCurly(P, token) ==
    IF P.state = "FUNCTION_NAMEREF" THEN SyntaxError(P, "BAD_NAMEREF")
    ELSE CodeToken([P EXCEPT !.state = Collecting(@)], token)

\* read_token once line_number is set
ReadTokenAt(P, token) ==
    CASE token.type = "NEWLINE" ->
            IF P.state \in {"FUNCTION_PENDING", "DATA_PENDING", "IN_FUNC_DATA_PENDING",
                            "VTABLE_PENDING"}
            THEN SyntaxWarning(P, "UNEXPECTED_BLANK_LINE") ELSE P
      [] token.type = "LINE_COMMENT" -> LineComment(P, CommentWords(token.value))
      [] OTHER -> AfterCurly(CurlyReadToken(P, token), token)

\* DecompParser.read_token
ReadToken(P, token) ==
    IF P.state = "DONE" THEN P
    ELSE ReadTokenAt([P EXCEPT !.line_number = token.line], token)

\* DecompParser.finish
Finish(P) ==
    [(IF P.state # "SEARCH" THEN SyntaxWarning(P, "UNEXPECTED_END_OF_FILE") ELSE P)
        EXCEPT !.state = "DONE"]

\* The programs beside the entity database before their first call
ToolsIdle ==
    reccmp = {} /\ source = <<>> /\ preproc = NewPreprocessor /\ parser = NewParser

----------------------------------------------------------------------------
(* Inputs of the API-level specification *)

\* e.g. set_orig(addr, name="A") and set_recomp(addr, type=FUNCTION, name=None)
ApiKwargs ==
    { [name |-> {<<"A">>}],
      [type |-> {"FUNCTION"}, name |-> {}] }

ApiTypes == { {}, {"DATA"} }

----------------------------------------------------------------------------
(* Actions: the calls a client of EntityDb / EntityBatch can make *)

dbVars == <<entities, types, labels, raw, saved>>

Called(op) ==
    /\ calls < MaxCalls
    /\ calls' = calls + 1
    /\ lastOp' = op
    /\ UNCHANGED <<lines, toolVars>>

\* EntityDb.set_orig_symbol
SetOrigSymbol ==
    \E a \in OrigAddrs, kw \in ApiKwargs :
        /\ Called(<<"set_orig_symbol">>)
        /\ entities' = InsertOrigRow(entities, a, kw)
        /\ raised' = FALSE
        /\ UNCHANGED <<types, labels, raw, saved, batch, inWith, events>>

\* EntityDb.set_recomp_symbol
SetRecompSymbol ==
    \E a \in RecompAddrs, kw \in ApiKwargs :
        /\ Called(<<"set_recomp_symbol">>)
        /\ entities' = InsertRecompRow(entities, a, kw)
        /\ raised' = FALSE
        /\ UNCHANGED <<types, labels, raw, saved, batch, inWith, events>>

\* The effect of a set_pair call whose result is res
SetPairDone(res) ==
    /\ Called(<<"set_pair", res.ret>>)
    /\ entities' = res.E
    /\ raised' = FALSE
    /\ UNCHANGED <<types, labels, raw, saved, batch, inWith, events>>

\* EntityDb.set_pair
DoSetPair ==
    \E o \in OrigAddrs, r \in RecompAddrs, t \in ApiTypes :
        SetPairDone(SetPair(entities, o, r, t))

Staged(op, b) ==
    /\ Called(op)
    /\ batch' = b
    /\ raised' = FALSE
    /\ UNCHANGED <<dbVars, inWith, events>>

StageInsertOrig ==
    \E a \in OrigAddrs, kw \in ApiKwargs :
        Staged(<<"insert_orig">>, BatchInsertOrig(batch, a, kw))

StageInsertRecomp ==
    \E a \in RecompAddrs, kw \in ApiKwargs :
        Staged(<<"insert_recomp">>, BatchInsertRecomp(batch, a, kw))

StageSetOrig ==
    \E a \in OrigAddrs, kw \in ApiKwargs :
        Staged(<<"set_orig">>, BatchSetOrig(batch, a, kw))

StageSetRecomp ==
    \E a \in RecompAddrs, kw \in ApiKwargs :
        Staged(<<"set_recomp">>, BatchSetRecomp(batch, a, kw))

StageMatch ==
    \E o \in OrigAddrs, r \in RecompAddrs :
        Staged(<<"match", o, r, UsedOrig(batch, r)>>, BatchMatch(batch, o, r))

StageSetRecompAddr ==
    \E o \in OrigAddrs, r \in RecompAddrs :
        Staged(<<"set_recomp_addr">>, BatchSetRecompAddr(batch, o, r))

\* The effect on the database of a commit() whose result is c
Committed(c) ==
    /\ entities' = c.db.entities
    /\ types' = c.db.types
    /\ labels' = c.db.labels
    /\ raw' = c.db.raw
    /\ saved' = c.saved
    /\ raised' = ~c.ok

\* commit() of the client's batch: the database and the pending state
CommittedBatch(c) ==
    /\ Committed(c)
    /\ batch' = c.batch

\* EntityBatch.commit called directly
DoCommit ==
    /\ Called(<<"commit">>)
    /\ CommittedBatch(Commit(cur, saved, batch))
    /\ UNCHANGED <<inWith, events>>

\* EntityBatch.reset called directly
DoReset ==
    /\ Called(<<"reset">>)
    /\ batch' = EmptyBatch
    /\ raised' = FALSE
    /\ UNCHANGED <<dbVars, inWith, events>>

\* EntityBatch.__enter__
WithEnter ==
    /\ ~inWith
    /\ calls < MaxCalls
    /\ inWith' = TRUE
    /\ lastOp' = <<"enter">>
    /\ raised' = FALSE
    /\ UNCHANGED <<dbVars, batch, events, calls, lines, toolVars>>

\* EntityBatch.__exit__(exc_type, ...): exc is TRUE when the block raised.
\* __exit__ returns None, so the block's exception propagates.
WithExitAlwaysCommits(exc) == CommittedBatch(Commit(cur, saved, batch))

WithExit(exc) ==
    IF exc
    THEN /\ batch' = EmptyBatch
         /\ raised' = TRUE
         /\ UNCHANGED dbVars
    ELSE CommittedBatch(Commit(cur, saved, batch))

DoWithExit ==
    \E exc \in BOOLEAN :
        /\ inWith
        /\ Called(<<"exit", exc>>)
        /\ WithExit(exc)
        /\ inWith' = FALSE
        /\ UNCHANGED events

Init ==
    /\ entities = {}
    /\ types = {}
    /\ labels = {}
    /\ raw = {}
    /\ saved = EmptyDb
    /\ batch = EmptyBatch
    /\ inWith = FALSE
    /\ lastOp = <<"init">>
    /\ raised = FALSE
    /\ events = <<>>
    /\ calls = 0
    /\ lines = NewLinesDb
    /\ ToolsIdle

Next ==
    \/ SetOrigSymbol
    \/ SetRecompSymbol
    \/ DoSetPair
    \/ StageInsertOrig
    \/ StageInsertRecomp
    \/ StageSetOrig
    \/ StageSetRecomp
    \/ StageMatch
    \/ StageSetRecompAddr
    \/ DoCommit
    \/ DoReset
    \/ WithEnter
    \/ DoWithExit

Spec == Init /\ [][Next]_vars

----------------------------------------------------------------------------
(* The specification of the LinesDb: a client that registers lines and
   function starts and searches, in any order *)

MaxLinePairs == 2

Filenames == {"a.cpp", "b.cpp"}
LineNumbers == {10, 15, 16}
LineAddrs == {256, 512}
LinePairs == LineNumbers \X LineAddrs
LineLists == {<<p>> : p \in LinePairs} \cup {<<p, q>> : p \in LinePairs, q \in LinePairs}

\* The number of pairs recorded for the file
PairCount(L, filename) ==
    IF filename \in DOMAIN L.map THEN Len(L.map[filename]) ELSE 0

LinesCalled(op) ==
    /\ lastOp' = op
    /\ raised' = FALSE
    /\ UNCHANGED <<dbVars, batch, inWith, events, calls, toolVars>>

DoAddLines ==
    \E filename \in Filenames, ls \in LineLists :
        /\ PairCount(lines, filename) + Len(ls) <= MaxLinePairs
        /\ lines' = AddLines(lines, filename, ls)
        /\ LinesCalled(<<"add_lines", filename>>)

DoAddFunctionStarts ==
    \E addrs \in SUBSET LineAddrs :
        /\ lines' = AddFunctionStarts(lines, addrs)
        /\ LinesCalled(<<"add_function_starts">>)

\* The effect of a search_line call whose result is res
Searched(path, line_start, line_end, res) ==
    /\ lines' = res.lines
    /\ LinesCalled(<<"search_line", path, line_start, line_end, res.ret>>)

DoSearchLine ==
    \E path \in Filenames, line_start \in LineNumbers, line_end \in LineNumbers \cup {NULL} :
        Searched(path, line_start, line_end,
                 SearchLine(lines, path, line_start, line_end))

NextLines ==
    \/ DoAddLines
    \/ DoAddFunctionStarts
    \/ DoSearchLine

SpecLines == Init /\ [][NextLines]_vars

----------------------------------------------------------------------------
(* Claims about the store and the batch, checked under Spec *)

IsCommitStep(op) == op = <<"commit">> \/ op = <<"exit", FALSE>>

\* C1 (as claimed): when commit() fails, the entities and the type and label
\* indexes are exactly what they were immediately before commit() was called.
C1_FailedCommitRestoresStore ==
    [][(IsCommitStep(lastOp') /\ raised')
        => (entities' = entities /\ types' = types /\ labels' = labels)]_vars

\* C2: no two rows of the store share a non-null orig address, and no two
\* share a non-null recomp address, after any sequence of store operations.
C2_UniqueAddresses ==
    \A e1, e2 \in entities :
        e1 # e2 =>
            /\ (e1.orig # NULL => e1.orig # e2.orig)
            /\ (e1.recomp # NULL => e1.recomp # e2.recomp)

\* C2 witness: a successful commit has left a matched entity beside a
\* one-sided one.
C2_Witness ==
    /\ IsCommitStep(lastOp)
    /\ ~raised
    /\ \E e \in entities : e.orig # NULL /\ e.recomp # NULL
    /\ \E e \in entities : e.orig = NULL /\ e.recomp # NULL

\* The recomp entity r can take an orig address in a commit of batch b on
\* the store E0: it is one-sided, or the batch creates it.
RecompFree(b, E0, r) ==
    \/ \E e \in E0 : e.recomp = r /\ e.orig = NULL
    \/ /\ ~RecompUsed(E0, r)
       /\ r \in DOMAIN b.recomp_insert \cup DOMAIN b.recomp

\* The batch b stages a value of key k for the recomp address r
RecompStaged(b, r, k) == r \in DOMAIN b.recomp /\ k \in DOMAIN b.recomp[r]

\* What a successful commit of batch b shows in the store afterwards (E1),
\* given the store before (E0): the inserted addresses exist, the staged
\* values are the entities' values (commit applies set_orig before
\* set_recomp and both before match, so a set_orig value stands unless the
\* same entity is given one for the key by set_recomp or is merged by a
\* match), the staged pairs are paired.
StagedApplied(b, E0, E1) ==
    /\ \A a \in DOMAIN b.orig_insert \cup DOMAIN b.orig : OrigUsed(E1, a)
    /\ \A a \in DOMAIN b.recomp_insert \cup DOMAIN b.recomp : RecompUsed(E1, a)
    /\ \A a \in DOMAIN b.orig :
          a \notin DOMAIN b.orig_to_recomp =>
              \A k \in DOMAIN b.orig[a] :
                  (b.orig[a][k] # {} /\ ~RecompStaged(b, GetByOrig(E0, a).recomp, k))
                      => GetByOrig(E1, a).kv[k] = b.orig[a][k]
    /\ \A a \in DOMAIN b.recomp :
          \A k \in DOMAIN b.recomp[a] :
              b.recomp[a][k] # {} => GetByRecomp(E1, a).kv[k] = b.recomp[a][k]
    /\ \A o \in DOMAIN b.orig_to_recomp :
          RecompFree(b, E0, b.orig_to_recomp[o])
              => GetByRecomp(E1, b.orig_to_recomp[o]).orig = o
    /\ \A o \in DOMAIN b.recomp_addr :
          OrigUsed(E1, o) => GetByOrig(E1, o).recomp # NULL

KeysKept(E0, E1) ==
    \A e \in E0 : \A k \in Keys :
        e.kv[k] # {} =>
            /\ (e.orig # NULL /\ OrigUsed(E1, e.orig)
                    => GetByOrig(E1, e.orig).kv[k] # {})
            /\ (e.recomp # NULL /\ RecompUsed(E1, e.recomp)
                    => GetByRecomp(E1, e.recomp).kv[k] # {})

\* C5 (as claimed): every attribute that holds a value before a commit or a
\* set_pair call still holds a value afterwards on the entity that owns the
\* address.
C5_AttributesAdditive ==
    [][((IsCommitStep(lastOp') \/ lastOp'[1] = "set_pair") /\ ~raised')
        => KeysKept(entities, entities')]_vars

----------------------------------------------------------------------------
(* The matching specification: a store ingested by one batch of inserts,   *)
(* then matching passes                                                     *)

NumMatchOrig == 3
NumMatchRecomp == 3
MaxPasses == 2

MatchOrigAddrs == 1..NumMatchOrig
MatchRecompAddrs == 1..NumMatchRecomp

\* Keyword arguments of insert_orig / insert_recomp, by kind of entity
SymbolFamily ==
    [orig |-> { [symbol |-> {<<"?f">>}], [symbol |-> {<<"?h">>}] },
     recomp |-> { [symbol |-> {<<"?f">>}], [symbol |-> {<<"?h">>}] }]

LabelFamily ==
    [orig |-> { [name |-> {<<"foo">>}, type |-> {"FUNCTION"}],
                [name |-> {<<"foo">>}],
                [name |-> {<<"foo">>}, symbol |-> {<<"?f">>}] },
     recomp |-> { [name |-> {<<"foo">>}, type |-> {"FUNCTION"}],
                  [name |-> {<<"foo">>}],
                  [name |-> {<<"foo">>}, symbol |-> {<<"?f">>}] }]

VtableFamily ==
    [orig |-> { [name |-> {<<"Widget">>}, type |-> {"VTABLE"}],
                [name |-> {<<"Widget">>}, type |-> {"VTABLE"},
                 base_class |-> {<<"Base">>}],
                [name |-> {<<"Widget">>}, type |-> {"VTABLE"},
                 base_class |-> {<<"Widget">>}] },
     recomp |-> { [name |-> {BareVftable(<<"Widget">>)}, type |-> {"VTABLE"}],
                  [name |-> {ForVftable(<<"Widget">>, <<"Base">>)},
                   type |-> {"VTABLE"}],
                  [name |-> {ForVftable(<<"Widget">>, <<"Widget">>)},
                   type |-> {"VTABLE"}] }]

StaticFamily ==
    [orig |-> { [name |-> {<<"Tick">>}, type |-> {"FUNCTION"},
                 symbol |-> {<<"?Tick@">>}],
                [name |-> {<<"g">>}, type |-> {"DATA"}, static_var |-> {TRUE},
                 parent_function |-> {1}] },
     recomp |-> { [symbol |-> {<<"?", "g", "@?1?", "?Tick@", "@4HA">>}],
                  [symbol |-> {<<"?", "G", "@?1?", "?Tick@", "@4HA">>}],
                  [symbol |-> {<<"?Tick@", "g">>}, type |-> {"DATA"}] }]

VariableFamily ==
    [orig |-> { [name |-> {<<"v">>}, type |-> {"DATA"}],
                [name |-> {<<"v">>}, type |-> {"POINTER"}],
                [name |-> {<<"v">>}, type |-> {"DATA"}, static_var |-> {TRUE}] },
     recomp |-> { [name |-> {<<"v">>}, type |-> {"DATA"}],
                  [name |-> {<<"v">>}, type |-> {"POINTER"}],
                  [name |-> {<<"v">>}] }]

StringFamily ==
    [orig |-> { [type |-> {"STRING"}] },
     recomp |-> { [type |-> {"STRING"}] }]

\* The byte contents read_func finds in the images
StringData == {"a", "b"}

LineFamily ==
    [orig |-> { [type |-> {"LINE"}, filename |-> {"a.cpp"}, line |-> {14}],
                [type |-> {"LINE"}, filename |-> {"a.cpp"}, line |-> {9}] },
     recomp |-> { [name |-> {<<"f">>}, type |-> {"FUNCTION"}] }]

\* The LinesDb handed to match_lines: a.cpp has code at line 10 (address 1)
\* and the start of a function at line 15 (address 2)
MatchLinesDb ==
    AddFunctionStarts(AddLines(NewLinesDb, "a.cpp", <<<<10, 1>>, <<15, 2>>>>), {2})

\* A parent with a symbol, and entities that refer to the parent at address 1
RefFamily ==
    [orig |-> { [symbol |-> {<<"?P@">>}],
                [ref_orig |-> {1}],
                [ref_orig |-> {1}, symbol |-> {<<"?T@">>}] },
     recomp |-> { [symbol |-> {<<"?P@">>}],
                  [ref_recomp |-> {1}],
                  [ref_recomp |-> {1}, symbol |-> {<<"?T@">>}] }]

Families ==
    {SymbolFamily, LabelFamily, VtableFamily, StaticFamily, VariableFamily, StringFamily,
     LineFamily, RefFamily}

\* insert_orig(a, **ot[a]) for the addresses os, in turn
RECURSIVE IngestOrig(_, _, _)
IngestOrig(b, ot, os) ==
    IF os = <<>> THEN b
    ELSE IngestOrig(BatchInsertOrig(b, Head(os), ot[Head(os)]), ot, Tail(os))

\* insert_recomp(a, **rt[a]) for the addresses rs, in turn
RECURSIVE IngestRecomp(_, _, _)
IngestRecomp(b, rt, rs) ==
    IF rs = <<>> THEN b
    ELSE IngestRecomp(BatchInsertRecomp(b, Head(rs), rt[Head(rs)]), rt, Tail(rs))

\* One batch holding the inserts of both images
IngestBatch(ot, rt) ==
    IngestRecomp(IngestOrig(EmptyBatch, ot, SortedSeq(DOMAIN ot)),
                 rt, SortedSeq(DOMAIN rt))

\* The state after the ingesting commit c
Ingested(c) ==
    /\ entities = c.db.entities
    /\ types = c.db.types
    /\ labels = c.db.labels
    /\ raw = c.db.raw
    /\ saved = c.saved
    /\ batch = EmptyBatch
    /\ inWith = FALSE
    /\ lastOp = <<"ingest">>
    /\ raised = FALSE
    /\ events = <<>>
    /\ calls = 0
    /\ lines = MatchLinesDb
    /\ ToolsIdle

InitMatch ==
    \E fam \in Families :
    \E od \in SUBSET MatchOrigAddrs, rd \in SUBSET MatchRecompAddrs :
    \E ot \in [od -> fam.orig], rt \in [rd -> fam.recomp] :
        Ingested(Commit(EmptyDb, EmptyDb, IngestBatch(ot, rt)))

\* A pass: `with db.batch() as batch:` around the loop that built st, the
\* batch being the pass's own
RunPass(name, st) ==
    /\ calls < MaxPasses
    /\ calls' = calls + 1
    /\ lastOp' = <<name>>
    /\ Committed(Commit(cur, saved, st.batch))
    /\ events' = st.events
    /\ UNCHANGED <<batch, inWith, lines, toolVars>>

PassMatchSymbols == RunPass("match_symbols", MatchSymbols(cur))
PassMatchFunctions == RunPass("match_functions", MatchFunctions(cur))
PassMatchVtables == RunPass("match_vtables", MatchVtables(cur))
PassMatchStaticVariables == RunPass("match_static_variables", MatchStaticVariables(cur))
PassMatchVariables == RunPass("match_variables", MatchVariables(cur))
PassMatchStrings == RunPass("match_strings", MatchStrings(cur))
PassMatchRef == RunPass("match_ref", MatchRef(cur))

\* match_lines whose loop ended as st.  An exception leaves the `with
\* db.batch() as batch:` block through __exit__, which commits nothing.
MatchLinesDone(st) ==
    /\ calls < MaxPasses
    /\ calls' = calls + 1
    /\ lastOp' = <<"match_lines">>
    /\ lines' = st.lines
    /\ events' = st.events
    /\ IF st.ok
       THEN Committed(Commit(cur, saved, st.batch))
       ELSE raised' = TRUE /\ UNCHANGED dbVars
    /\ UNCHANGED <<batch, inWith, toolVars>>

PassMatchLines == MatchLinesDone(MatchLines(cur, lines))

\* read_strings(img, read_func), called once for an image that has strings.
\* The INSERT runs in the implicit transaction; nothing is committed here.
DoReadStrings ==
    \E img \in {0, 1} :
        /\ StringAddrs(entities, img) # {}
        /\ \A r \in raw : r[1] # img
        /\ \E read_func \in [StringAddrs(entities, img) -> StringData \cup {READ_ERROR}] :
                raw' = ReadStrings(raw, entities, img, read_func)
        /\ lastOp' = <<"read_strings", img>>
        /\ raised' = FALSE
        /\ UNCHANGED <<entities, types, labels, saved, batch, inWith, events, calls, lines, toolVars>>

NextMatch ==
    \/ PassMatchSymbols
    \/ PassMatchFunctions
    \/ PassMatchVtables
    \/ PassMatchStaticVariables
    \/ PassMatchVariables
    \/ PassMatchStrings
    \/ PassMatchLines
    \/ PassMatchRef
    \/ DoReadStrings

SpecMatch == InitMatch /\ [][NextMatch]_vars

----------------------------------------------------------------------------
(* The specification of a batch on a store that holds entities already: the
   store is what a first batch of inserts left, and the client pairs
   entities directly and through a batch *)

InitBatch ==
    \E od \in SUBSET OrigAddrs, rd \in SUBSET RecompAddrs :
    \E ot \in [od -> {[name |-> {<<"A">>}]}], rt \in [rd -> {[name |-> {<<"A">>}]}] :
        Ingested(Commit(EmptyDb, EmptyDb, IngestBatch(ot, rt)))

NextBatch ==
    \/ DoSetPair
    \/ StageMatch
    \/ StageSetRecompAddr
    \/ DoCommit
    \/ DoReset

SpecBatch == InitBatch /\ [][NextBatch]_vars

----------------------------------------------------------------------------
(* Claims about the matching passes, checked under SpecMatch *)

PassNames ==
    {"match_symbols", "match_functions", "match_vtables", "match_static_variables",
     "match_variables", "match_strings", "match_ref"}

IsPassStep(op) == \E name \in PassNames : op = <<name>>

OrigAddrsOf(E) == {e.orig : e \in E} \ {NULL}
RecompAddrsOf(E) == {e.recomp : e \in E} \ {NULL}

\* C4 (as claimed): every orig address and every recomp address present in
\* the store before a batch commit or a matching pass is still present in
\* the store after it.
C4_NoAddressDisappears ==
    [][(IsCommitStep(lastOp') \/ IsPassStep(lastOp'))
        => /\ OrigAddrsOf(entities) \subseteq OrigAddrsOf(entities')
           /\ RecompAddrsOf(entities) \subseteq RecompAddrsOf(entities')]_vars

\* The loop of the pass called name, run on the database d
PassResult(name, d) ==
    CASE name = "match_symbols" -> MatchSymbols(d)
      [] name = "match_functions" -> MatchFunctions(d)
      [] name = "match_vtables" -> MatchVtables(d)
      [] name = "match_static_variables" -> MatchStaticVariables(d)
      [] name = "match_variables" -> MatchVariables(d)
      [] name = "match_strings" -> MatchStrings(d)
      [] name = "match_ref" -> MatchRef(d)

\* The entities after running the pass called name on the current store
Rerun(name) == Commit(cur, saved, PassResult(name, cur).batch).db.entities

\* C6 (as claimed): directly after a pass has run, running the same pass
\* again changes no entity: no new match, no address and no attribute.
C6_PassesIdempotent ==
    \A name \in PassNames : lastOp = <<name>> => Rerun(name) = entities

\* Events as a pass reports them
HasEvent(ev, kind, addr) == \E i \in DOMAIN ev : ev[i] = <<kind, addr>>
EventCount(ev, kind, addr) == Cardinality({i \in DOMAIN ev : ev[i] = <<kind, addr>>})

\* Rank of address a in the set S of addresses, in ascending order, and the
\* k-th address of S
RankIn(S, a) == Cardinality({x \in S : x <= a})
KthOf(S, k) == CHOOSE a \in S : RankIn(S, a) = k

\* The unmatched orig / recomp addresses of E that carry the symbol s
SymOrigs(E, s) == {e.orig : e \in {x \in OrigUnmatched(E) : x.kv["symbol"] = {s}}}
SymRecomps(E, s) == {e.recomp : e \in {x \in RecompUnmatched(E) : x.kv["symbol"] = {s}}}

\* What match_symbols owes the orig address o of symbol s, which is the k-th
\* of its symbol, when R are the recomp addresses of the symbol: E1 is the
\* store and ev the reports after the pass
SymbolOutcome(E1, ev, o, k, R) ==
    IF k <= Cardinality(R)
    THEN /\ GetByOrig(E1, o).recomp = KthOf(R, k)
         /\ GetByRecomp(E1, KthOf(R, k)).orig = o
         /\ EventCount(ev, "NON_UNIQUE_SYMBOL", o) = (IF Cardinality(R) > k THEN 1 ELSE 0)
         /\ ~HasEvent(ev, "NO_MATCH", o)
    ELSE /\ GetByOrig(E1, o).recomp = NULL
         /\ EventCount(ev, "NO_MATCH", o) = 1
         /\ ~HasEvent(ev, "NON_UNIQUE_SYMBOL", o)

SymbolsPaired(E0, E1, ev) ==
    /\ \A e \in {x \in OrigUnmatched(E0) : x.kv["symbol"] # {}} :
          SymbolOutcome(E1, ev, e.orig,
                        RankIn(SymOrigs(E0, OptVal(e.kv["symbol"])), e.orig),
                        SymRecomps(E0, OptVal(e.kv["symbol"])))
    /\ \A i, j \in DOMAIN ev : i < j => ev[i][2] < ev[j][2]
    /\ \A i \in DOMAIN ev :
          \E e \in OrigUnmatched(E0) : e.kv["symbol"] # {} /\ e.orig = ev[i][2]

UnmatchedIn(E, img, addr) ==
    IF img = 0 THEN addr \notin Matched0(E) ELSE addr \notin Matched1(E)

\* The unmatched addresses of image img that carry the label name and are
\* typed FUNCTION or untyped: the group of a name on one side
FnGroup(d, img, name) ==
    {l[2] : l \in {x \in d.labels :
        /\ x[1] = img /\ x[3] = name
        /\ TypeOf(d.types, img, x[2]) \in {{}, {"FUNCTION"}}
        /\ UnmatchedIn(d.entities, img, x[2])}}

MinOf(a, b) == IF a <= b THEN a ELSE b

\* What match_functions owes the k-th members of the groups O and R of a
\* name, where one of the two is typed FUNCTION
FunctionOutcome(d0, E1, ev, O, R, k) ==
    (\/ TypeOf(d0.types, 0, KthOf(O, k)) = {"FUNCTION"}
     \/ TypeOf(d0.types, 1, KthOf(R, k)) = {"FUNCTION"})
        => /\ GetByOrig(E1, KthOf(O, k)).recomp = KthOf(R, k)
           /\ GetByRecomp(E1, KthOf(R, k)).orig = KthOf(O, k)
           /\ EventCount(ev, "AMBIGUOUS_MATCH", KthOf(O, k))
                = (IF Cardinality(O) > 1 \/ Cardinality(R) > 1 THEN 1 ELSE 0)

GroupPaired(d0, E1, ev, O, R) ==
    \A k \in 1..MinOf(Cardinality(O), Cardinality(R)) :
        FunctionOutcome(d0, E1, ev, O, R, k)

\* C8 (as claimed): match_functions pairs the k-th unmatched orig entity of a
\* name with the k-th unmatched recomp entity of that name, and reports one
\* AMBIGUOUS_MATCH per pair exactly when one of the two groups has more than
\* one member.
C8_MatchFunctions ==
    [][lastOp' = <<"match_functions">>
        => \A name \in {l[3] : l \in labels} :
              GroupPaired(cur, entities', events',
                          FnGroup(cur, 0, name), FnGroup(cur, 1, name))]_vars

\* The candidates that are unmatched on their side
UnmatchedCandidates(d, entity_type) ==
    {c \in Candidates(d, entity_type) : UnmatchedIn(d.entities, c.img, c.addr)}

\* C9 (as claimed): in every store, get_matches_for_type_and_label returns
\* no matched entity in a pair, and its rows are those that grouping and
\* ranking the unmatched entities alone would give.
C9_OnlyUnmatchedRanked ==
    /\ \A m \in GetMatchesForTypeAndLabel(cur, "FUNCTION") :
          m[1] \notin Matched0(entities) /\ m[2] \notin Matched1(entities)
    /\ GetMatchesForTypeAndLabel(cur, "FUNCTION")
          = JoinCandidates(UnmatchedCandidates(cur, "FUNCTION"))

\* The unmatched recomp VTABLE entities of E whose name is key
VtRecomps(E, key) ==
    {e.recomp : e \in {x \in RecompUnmatched(E) :
        x.kv["name"] = {key} /\ x.kv["type"] = {"VTABLE"}}}

\* The names an orig vtable of class C with base_class B may take, in the
\* order of preference
VtForms(C, B) ==
    IF B = {} \/ B = {C}
    THEN <<C \o <<"::vftable">>, C \o <<"::vftable", "{for ">> \o C \o <<"}">>>>
    ELSE <<C \o <<"::vftable", "{for ">> \o OptVal(B) \o <<"}">>>>

\* Every recomp vtable of E0 named key at an address below limit went, in
\* this pass, to an orig entity before o
TakenBefore(E0, E1, key, o, limit) ==
    \A r \in VtRecomps(E0, key) :
        r < limit => GetByRecomp(E1, r).orig \in 1..(o - 1)

\* What match_vtables owes the orig vtable o whose names in order are F
VtableOutcome(E0, E1, ev, o, F) ==
    IF GetByOrig(E1, o).recomp # NULL
    THEN /\ \E i \in DOMAIN F :
              /\ GetByOrig(E1, o).recomp \in VtRecomps(E0, F[i])
              /\ TakenBefore(E0, E1, F[i], o, GetByOrig(E1, o).recomp)
              /\ \A j \in 1..(i - 1) :
                    TakenBefore(E0, E1, F[j], o, NumMatchRecomp + 1)
         /\ GetByRecomp(E1, GetByOrig(E1, o).recomp).orig = o
         /\ ~HasEvent(ev, "NO_MATCH", o)
    ELSE /\ \A i \in DOMAIN F : TakenBefore(E0, E1, F[i], o, NumMatchRecomp + 1)
         /\ EventCount(ev, "NO_MATCH", o) = 1

\* C10: match_vtables gives an unmatched orig vtable of class C the first
\* available recomp vtable named C::`vftable', else C::`vftable'{for `C'},
\* when its base_class is unset or C; only C::`vftable'{for `B'} when its
\* base_class B differs from C; and reports NO_MATCH when none is left.
C10_MatchVtables ==
    [][lastOp' = <<"match_vtables">>
        => \A e \in {x \in OrigUnmatched(entities) :
                        x.kv["name"] # {} /\ x.kv["type"] = {"VTABLE"}} :
              VtableOutcome(entities, entities', events', e.orig,
                            VtForms(OptVal(e.kv["name"]), e.kv["base_class"]))]_vars

\* C10 witness: match_vtables has matched a vtable and has reported an orig
\* vtable without a match while a recomp vtable of the bare name is left
C10_Witness ==
    /\ lastOp = <<"match_vtables">>
    /\ \E e \in entities : e.orig # NULL /\ e.recomp # NULL
    /\ \E i \in DOMAIN events : events[i][1] = "NO_MATCH"
    /\ \E e \in RecompUnmatched(entities) :
          e.kv["name"] = {<<"Widget", "::vftable">>}

\* Text sub occurs in text s, letter for letter
Contains(s, sub) ==
    \E i \in 1..(Len(s) + 1) :
        /\ i + Len(sub) - 1 <= Len(s)
        /\ \A k \in 1..Len(sub) : s[i + k - 1] = sub[k]

\* The unmatched recomp entities of E whose symbol contains both texts
BothIn(E, variable_name, function_symbol) ==
    {e.recomp : e \in {x \in RecompUnmatched(E) :
        /\ x.kv["symbol"] # {}
        /\ Contains(OptVal(x.kv["symbol"]), variable_name)
        /\ Contains(OptVal(x.kv["symbol"]), function_symbol)}}

\* What match_static_variables owes the static variable var of the store E0
\* whose parent function has the symbol fsym ({} when it is not resolved)
StaticOutcome(E0, E1, ev, var, fsym) ==
    IF fsym = {}
    THEN /\ GetByOrig(E1, var.orig).recomp = NULL
         /\ \E i \in DOMAIN ev :
               ev[i] = <<"NO_MATCH", var.orig, "No function for static variable">>
    ELSE IF BothIn(E0, OptVal(var.kv["name"]), OptVal(fsym)) = {}
    THEN /\ GetByOrig(E1, var.orig).recomp = NULL
         /\ \E i \in DOMAIN ev :
               ev[i] = <<"NO_MATCH", var.orig, "Failed to match static variable">>
    ELSE GetByOrig(E1, var.orig).recomp
            \in BothIn(E0, OptVal(var.kv["name"]), OptVal(fsym))

\* C11 (as claimed): match_static_variables matches an unmatched orig static
\* variable to an unmatched recomp entity exactly when that entity's symbol
\* contains the variable's name and the parent function's symbol; it reports
\* NO_MATCH with one message when the parent function or its symbol is not
\* resolved, and with another when no recomp symbol contains both.
C11_MatchStaticVariables ==
    [][lastOp' = <<"match_static_variables">>
        => \A var \in {x \in OrigUnmatched(entities) :
                          x.kv["static_var"] = {TRUE} /\ x.kv["name"] # {}} :
              StaticOutcome(entities, entities', events', var,
                            ParentSymbol(entities, var))]_vars

\* The unmatched addresses of one side of E that the positional match of
\* variables ranks under the name: not static, of one of the types tys
VarGroup(S, name, tys) ==
    {e \in S : /\ e.kv["name"] = {name}
               /\ e.kv["type"] \in tys
               /\ e.kv["static_var"] # {TRUE}}

\* The k-th members of the orig group O and the recomp group R are paired
VarGroupsPaired(E1, O, R) ==
    \A k \in 1..MinOf(Cardinality(O), Cardinality(R)) :
        GetByOrig(E1, KthOf(O, k)).recomp = KthOf(R, k)

\* C12 (as claimed): match_variables pairs the k-th unmatched orig of a name
\* with the k-th unmatched recomp of the name, counting the non-static
\* entities of type DATA or POINTER (an untyped recomp entity counts as
\* well, as in the label match), and matches no other entity.
C12_MatchVariables ==
    [][lastOp' = <<"match_variables">>
        => /\ \A name \in {OptVal(e.kv["name"]) : e \in {x \in entities : x.kv["name"] # {}}} :
                VarGroupsPaired(entities',
                    {e.orig : e \in VarGroup(OrigUnmatched(entities), name,
                                              {{"DATA"}, {"POINTER"}})},
                    {e.recomp : e \in VarGroup(RecompUnmatched(entities), name,
                                                {{"DATA"}, {"POINTER"}, {}})})
           /\ \A e \in entities' :
                (e.orig # NULL /\ e.recomp # NULL /\ e.orig \notin Matched0(entities))
                    => /\ GetByOrig(entities, e.orig) \in
                            VarGroup(OrigUnmatched(entities), OptVal(e.kv["name"]),
                                     {{"DATA"}, {"POINTER"}})
                       /\ GetByRecomp(entities, e.recomp) \in
                            VarGroup(RecompUnmatched(entities), OptVal(e.kv["name"]),
                                     {{"DATA"}, {"POINTER"}, {}})]_vars

\* The addresses of the STRING entities of image img whose staged raw
\* content is data
StringGroup(E, R, img, data) ==
    {a \in StringAddrs(E, img) : <<img, a, data>> \in R}

RecordedPairs(L, path) == IF path \in DOMAIN L.map THEN L.map[path] ELSE <<>>

RecordedStarts(L, path, line_start, line_end) ==
    PossibleFunctions(SelectSeq(RecordedPairs(L, path), LAMBDA p : p[2] \in L.functions),
                      line_start, line_end)

\* What the search is to return from what has been recorded
UniqueStart(starts) == IF Len(starts) = 1 THEN starts[1][2] ELSE NULL

\* C16 (as claimed): search_line(path, line_start, line_end), line_end
\* defaulting to line_start, returns A exactly when the pairs recorded for
\* path hold exactly one pair whose address is a registered function start
\* and whose line lies in [line_start, line_end], and None otherwise; it
\* never returns an address that add_function_starts did not register.
C16_SearchLine ==
    [][lastOp'[1] = "search_line"
        => /\ lastOp'[5] = UniqueStart(RecordedStarts(lines, lastOp'[2], lastOp'[3],
                                IF lastOp'[4] = NULL THEN lastOp'[3] ELSE lastOp'[4]))
           /\ lastOp'[5] # NULL => lastOp'[5] \in lines.functions]_vars

\* The LinesDb of the example: a.cpp with the lines (10, 0x100), (15, 0x200),
\* the function start 0x200, and no search made before the two were added
ExampleLines == <<<<10, 256>>, <<15, 512>>>>

ExampleDb(L) ==
    /\ L.map = MapPut(EmptyMap, "a.cpp", ExampleLines)
    /\ L.functions = {512}
    /\ L.functions_map \in {{}, {MapPut(EmptyMap, "a.cpp", <<<<15, 512>>>>)}}

\* A call search_line("a.cpp", line) on the LinesDb of the example returns ret
ExampleSearch(op, line, ret) ==
    (op[1] = "search_line" /\ op[2] = "a.cpp" /\ op[3] = line /\ op[4] = NULL)
        => op[5] = ret

\* C17 (as claimed): on the LinesDb of the example search_line("a.cpp", 16)
\* returns 0x200 and search_line("a.cpp", 10) returns None.
C17_Example ==
    [][ExampleDb(lines)
        => ExampleSearch(lastOp', 16, 512) /\ ExampleSearch(lastOp', 10, NULL)]_vars

\* C17 (amended): on the LinesDb of the example search_line("a.cpp", 15)
\* returns 0x200 and search_line("a.cpp", 10) returns None.
C17_ExampleLine15 ==
    [][ExampleDb(lines)
        => ExampleSearch(lastOp', 15, 512) /\ ExampleSearch(lastOp', 10, NULL)]_vars

\* search_line("a.cpp", 15) has returned 0x200 on the LinesDb of the example
C17_Witness ==
    /\ lastOp = <<"search_line", "a.cpp", 15, NULL, 512>>
    /\ lines.map = MapPut(EmptyMap, "a.cpp", ExampleLines)
    /\ lines.functions = {512}

\* What match_lines is to do for the LINE entity at orig_addr when
\* search_line returns ret for the line below its annotation
LineOutcome(E1, ev, orig_addr, ret) ==
    IF ret # NULL
    THEN GetByOrig(E1, orig_addr).recomp = ret
    ELSE HasEvent(ev, "NO_MATCH", orig_addr)

\* C14 (as claimed): match_lines raises no exception; an unmatched LINE
\* entity for which search_line(filename, line + 1) returns an address has
\* that address as its recomp address after the pass, and one for which it
\* returns None has a NO_MATCH event reported.
C14_MatchLines ==
    [][lastOp' = <<"match_lines">>
        => /\ ~raised'
           /\ \A e \in {x \in OrigUnmatched(entities) : x.kv["type"] = {"LINE"}} :
                LineOutcome(entities', events', e.orig,
                    SearchLine(lines, OptVal(e.kv["filename"]),
                               OptVal(e.kv["line"]) + 1, NULL).ret)]_vars

\* The addresses in image img of the entities that refer to address parent
Referencers(E, img, parent) ==
    {SideAddr(e, img) : e \in {x \in E : SideRef(x, img) = {parent}}} \ {NULL}

\* The entity at orig address o and the one at recomp address r refer, each
\* on its side, to the two addresses of one matched entity of E
ReferToMatched(E, o, r) ==
    \E p \in {x \in E : x.orig # NULL /\ x.recomp # NULL} :
        /\ o \in Referencers(E, 0, p.orig)
        /\ r \in Referencers(E, 1, p.recomp)

\* C15 (as claimed): for each entity that is matched when match_ref runs,
\* the k-th orig entity that refers to it is matched with the k-th recomp
\* entity that refers to it afterwards, and every pair that match_ref makes
\* is such a pair: referencers of a one-sided parent are not paired.  The
\* entities ranked are the referencers that are still unmatched.
C15_MatchRef ==
    [][lastOp' = <<"match_ref">>
        => /\ \A p \in {x \in entities : x.orig # NULL /\ x.recomp # NULL} :
                VarGroupsPaired(entities',
                    Referencers(OrigUnmatched(entities), 0, p.orig),
                    Referencers(RecompUnmatched(entities), 1, p.recomp))
           /\ \A e \in entities' \ entities :
                (e.orig # NULL /\ e.recomp # NULL)
                    => ReferToMatched(entities, e.orig, e.recomp)]_vars

\* The type of the entity at recomp after set_pair(orig, recomp, t): t when
\* a type is given, the type it had otherwise
PairedType(E0, recomp, t) ==
    IF t # {} THEN t ELSE GetByRecomp(E0, recomp).kv["type"]

\* What set_pair(orig, recomp, t) is to do on the entities E0 where an entity
\* exists at recomp: E1 are the entities afterwards, ret the value returned
SetPairOutcome(E0, E1, ret, orig, recomp, t) ==
    IF \E e \in E0 : e.orig = orig /\ e.recomp # recomp
    THEN ret = FALSE /\ E1 = E0
    ELSE RecompUsed(E0, recomp)
            => /\ ret = TRUE
               /\ GetByRecomp(E1, recomp).orig = orig
               /\ GetByRecomp(E1, recomp).kv["type"] = PairedType(E0, recomp, t)

\* C18 (as claimed): set_pair(orig, recomp, type) returns false and changes
\* nothing when orig is used by an entity other than the one at recomp;
\* otherwise the entity at recomp gets orig as its orig address, true is
\* returned, and the entity's type changes only when a type is given.  A
\* set_pair step is to be such a call for some arguments.
C18_SetPair ==
    [][lastOp'[1] = "set_pair"
        => \E o \in OrigAddrs, r \in RecompAddrs, t \in ApiTypes :
              SetPairOutcome(entities, entities', lastOp'[2], o, r, t)]_vars

\* match(o2, r) on the batch b0 gave b1: a link of r to another orig is gone
\* and r is linked to o2
LinkReplaced(b0, b1, o2, r) ==
    \A o1 \in DOMAIN b0.orig_to_recomp :
        (o1 # o2 /\ b0.orig_to_recomp[o1] = r)
            => /\ o1 \notin DOMAIN b1.orig_to_recomp
               /\ o2 \in DOMAIN b1.orig_to_recomp
               /\ b1.orig_to_recomp[o2] = r

\* No recomp address is staged for two different orig addresses
OneOrigPerRecomp(b) ==
    \A x \in DOMAIN b.orig_to_recomp, y \in DOMAIN b.orig_to_recomp :
        x # y => b.orig_to_recomp[x] # b.orig_to_recomp[y]

\* A commit of the batch b took the entities from E0 to E1: a staged link
\* between two unmatched entities is written, and an unmatched orig entity
\* with no link staged is an unmatched orig entity still.  An address given
\* to set_recomp_addr as well is left to that.
StagedLinksWritten(E0, E1, b) ==
    /\ \A o \in DOMAIN b.orig_to_recomp :
            (/\ o \in {e.orig : e \in OrigUnmatched(E0)}
             /\ b.orig_to_recomp[o] \in {e.recomp : e \in RecompUnmatched(E0)}
             /\ o \notin DOMAIN b.recomp_addr)
                => GetByOrig(E1, o).recomp = b.orig_to_recomp[o]
    /\ \A e \in OrigUnmatched(E0) :
            (e.orig \notin DOMAIN b.orig_to_recomp /\ e.orig \notin DOMAIN b.recomp_addr)
                => e.orig \in {x.orig : x \in OrigUnmatched(E1)}

\* C19: within one batch match(o2, r) after match(o1, r), o1 # o2, removes
\* the link of o1 and stages r for o2; no recomp address is ever staged for
\* two orig addresses; and a commit that succeeds writes the links that are
\* staged and leaves an orig entity whose link was replaced unmatched.
C19_LastMatchWins ==
    [][/\ lastOp'[1] = "match"
            => LinkReplaced(batch, batch', lastOp'[2], lastOp'[3])
       /\ OneOrigPerRecomp(batch')
       /\ (IsCommitStep(lastOp') /\ ~raised')
            => StagedLinksWritten(entities, entities', batch)]_vars

\* match(1, 1) then match(2, 1) on a store that holds the unmatched orig
\* entities 1 and 2 and the unmatched recomp entity 1: only 2 is linked
C19_Witness ==
    /\ calls = 2
    /\ lastOp = <<"match", 2, 1, 1>>
    /\ batch.orig_to_recomp = MapPut(EmptyMap, 2, 1)
    /\ {1, 2} \subseteq {e.orig : e \in OrigUnmatched(entities)}
    /\ 1 \in {e.recomp : e \in RecompUnmatched(entities)}

\* The batch b stages inserts only
InsertsOnly(b) ==
    /\ b.orig = EmptyMap /\ b.recomp = EmptyMap
    /\ b.orig_to_recomp = EmptyMap /\ b.recomp_addr = EmptyMap

\* The entries of the index T (types or labels) for the address of image img
IndexEntries(T, img, addr) == {t \in T : t[1] = img /\ t[2] = addr}

\* The entity e of d0, which has an address in image img, and its entries
\* in the two indexes are in d1 what they are in d0
EntityKept(d0, d1, e, img) ==
    /\ e \in d1.entities
    /\ IndexEntries(d1.types, img, SideAddr(e, img))
            = IndexEntries(d0.types, img, SideAddr(e, img))
    /\ IndexEntries(d1.labels, img, SideAddr(e, img))
            = IndexEntries(d0.labels, img, SideAddr(e, img))

\* The staged inserts ins of image img, committed on d0 with result d1: an
\* insert at a free address has made the entity, one at an address in use
\* has changed neither the entity nor its index entries
InsertsApplied(d0, d1, ins, img) ==
    \A addr \in DOMAIN ins :
        IF \E e \in d0.entities : SideAddr(e, img) = addr
        THEN \A e \in {x \in d0.entities : SideAddr(x, img) = addr} :
                EntityKept(d0, d1, e, img)
        ELSE \E e \in d1.entities :
                SideAddr(e, img) = addr /\ e.kv = Kv(ins[addr])

\* C20 (as claimed): a commit of staged inserts makes an entity where no
\* entity exists at the address on that side, and where one exists it leaves
\* the entity's attributes and its entries in the type and label indexes
\* exactly as they were.
C20_InsertIgnoresExisting ==
    [][(IsCommitStep(lastOp') /\ InsertsOnly(batch))
        => /\ InsertsApplied(cur, Db(entities', types', labels', raw'),
                             batch.orig_insert, 0)
           /\ InsertsApplied(cur, Db(entities', types', labels', raw'),
                             batch.recomp_insert, 1)]_vars

\* The batch b stages one set_recomp_addr(orig, recomp) and nothing else
OnlySetRecompAddr(b, orig, recomp) ==
    b = [EmptyBatch EXCEPT !.recomp_addr = MapPut(EmptyMap, orig, recomp)]

\* What a commit of set_recomp_addr(orig, recomp) is to do to the entities E0
RecompAddrOutcome(E0, E1, orig, recomp) ==
    IF (\E e \in OrigUnmatched(E0) : e.orig = orig) /\ ~RecompUsed(E0, recomp)
    THEN E1 = {IF e.orig = orig THEN [e EXCEPT !.recomp = recomp] ELSE e : e \in E0}
    ELSE E1 = E0

\* C21 (as claimed): a commit of a staged set_recomp_addr(orig, recomp) gives
\* the entity at orig the recomp address when that entity has none and the
\* address is free; in every other case (no entity at orig, the entity
\* matched already, recomp taken) it changes no entity.
C21_SetRecompAddr ==
    [][IsCommitStep(lastOp')
        => \A o \in OrigAddrs, r \in RecompAddrs :
              OnlySetRecompAddr(batch, o, r)
                  => RecompAddrOutcome(entities, entities', o, r)]_vars


----------------------------------------------------------------------------
(* EntityDb.get_next_orig_addr, and the specification of a client that
   queries a store holding typed, untyped and LINE entities *)

\* SELECT orig_addr FROM entities WHERE orig_addr > ? AND
\* json_extract(kvstore,'$.type') != LINE: a comparison with NULL is not true
NextOrigRows(E, addr) ==
    {e \in E : /\ e.orig # NULL
               /\ e.orig > addr
               /\ e.kv["type"] # {}
               /\ e.kv["type"] # {"LINE"}}

\* ORDER BY orig_addr LIMIT 1, or None
GetNextOrigAddr(E, addr) ==
    IF NextOrigRows(E, addr) = {} THEN NULL
    ELSE LET S == {e.orig : e \in NextOrigRows(E, addr)}
         IN  CHOOSE x \in S : \A y \in S : x <= y

QueryKwargs ==
    { [name |-> {<<"A">>}],
      [type |-> {"FUNCTION"}],
      [type |-> {"LINE"}] }

InitQuery ==
    \E od \in SUBSET MatchOrigAddrs, rd \in SUBSET RecompAddrs :
    \E ot \in [od -> QueryKwargs], rt \in [rd -> {[name |-> {<<"A">>}]}] :
        Ingested(Commit(EmptyDb, EmptyDb, IngestBatch(ot, rt)))

DoGetNextOrigAddr ==
    \E addr \in 0..NumMatchOrig :
        /\ Called(<<"get_next_orig_addr", addr, GetNextOrigAddr(entities, addr)>>)
        /\ raised' = FALSE
        /\ UNCHANGED <<entities, types, labels, raw, saved, batch, inWith, events>>

NextQuery ==
    \/ DoGetNextOrigAddr
    \/ DoSetPair

SpecQuery == InitQuery /\ [][NextQuery]_vars

\* The orig addresses above addr of the entities of E whose type is not LINE
NotLineAbove(E, addr) ==
    {e.orig : e \in {x \in E : x.orig # NULL /\ x.orig > addr /\ x.kv["type"] # {"LINE"}}}

\* C22 (as claimed): get_next_orig_addr(addr) returns the smallest orig
\* address greater than addr among the entities, matched or not, whose type
\* is not LINE (an entity with no type included), and None when there is none.
C22_GetNextOrigAddr ==
    lastOp[1] = "get_next_orig_addr"
        => IF NotLineAbove(entities, lastOp[2]) = {}
           THEN lastOp[3] = NULL
           ELSE /\ lastOp[3] \in NotLineAbove(entities, lastOp[2])
                /\ \A y \in NotLineAbove(entities, lastOp[2]) : lastOp[3] <= y

----------------------------------------------------------------------------
(* Existing matches across a matching pass *)

\* The matched entity e of the store is, in E1, still the pairing of the same
\* two addresses and still carries every attribute it had
MatchKept(e, E1) ==
    \E e1 \in E1 :
        /\ e1.orig = e.orig
        /\ e1.recomp = e.recomp
        /\ \A k \in Keys : e.kv[k] # {} => e1.kv[k] = e.kv[k]

\* C26 (as claimed): a matching pass never changes an existing match: every
\* pair (orig, recomp) matched in the store before the pass is still matched
\* to each other, with all its attributes, after the pass.
C26_PassKeepsMatches ==
    [][IsPassStep(lastOp')
        => \A e \in entities : (e.orig # NULL /\ e.recomp # NULL) => MatchKept(e, entities')]_vars

----------------------------------------------------------------------------
(* The two maps of staged matches *)

\* _recomp_to_orig of the batch b is the exact inverse of _orig_to_recomp
ExactInverse(b) ==
    /\ DOMAIN b.recomp_to_orig = {b.orig_to_recomp[o] : o \in DOMAIN b.orig_to_recomp}
    /\ \A o \in DOMAIN b.orig_to_recomp : b.recomp_to_orig[b.orig_to_recomp[o]] = o

\* No two orig addresses of the batch b are staged for one recomp address
OneToOne(b) ==
    \A o1, o2 \in DOMAIN b.orig_to_recomp :
        b.orig_to_recomp[o1] = b.orig_to_recomp[o2] => o1 = o2

\* The pairs staged in b0 that match(orig, recomp) does not name are staged in b1
OtherPairsKept(b0, b1, orig, recomp) ==
    \A o \in DOMAIN b0.orig_to_recomp :
        (o # orig /\ b0.orig_to_recomp[o] # recomp)
            => /\ o \in DOMAIN b1.orig_to_recomp
               /\ b1.orig_to_recomp[o] = b0.orig_to_recomp[o]

\* C27 (as claimed): after any sequence of match calls within one batch the
\* staged matches are a one-to-one pairing, _recomp_to_orig is the exact
\* inverse of _orig_to_recomp, and a match call on two other addresses never
\* removes a staged pair.
C27_StagedPairing ==
    [][lastOp'[1] = "match"
        => /\ OneToOne(batch')
           /\ ExactInverse(batch')
           /\ OtherPairsKept(batch, batch', lastOp'[2], lastOp'[3])]_vars

----------------------------------------------------------------------------
(* The indexes after a commit *)

\* Every entry staged in the map m of a batch is in the index T
IndexHolds(T, m) == \A key \in DOMAIN m : <<key[1], key[2], m[key]>> \in T

\* C28 (as claimed): after a successful commit every address staged with a
\* name has that name in the label index and every address staged with a type
\* has it in the type index, whether or not a value of the other kind was
\* staged in the same batch.
C28_IndexesWritten ==
    [][(IsCommitStep(lastOp') /\ ~raised')
        => /\ IndexHolds(labels', batch.labels)
           /\ IndexHolds(types', batch.types)]_vars

----------------------------------------------------------------------------
(* The orig entities a pass examines, and what becomes of them *)

\* The rows of orig_unmatched the second loop of the pass called name visits
Examined(name, E) ==
    CASE name = "match_symbols" ->
            {e \in OrigUnmatched(E) : e.kv["symbol"] # {}}
      [] name = "match_vtables" ->
            {e \in OrigUnmatched(E) : e.kv["name"] # {} /\ e.kv["type"] = {"VTABLE"}}
      [] name = "match_static_variables" ->
            {e \in OrigUnmatched(E) : e.kv["static_var"] = {TRUE} /\ e.kv["name"] # {}}
      [] name = "match_variables" ->
            {e \in OrigUnmatched(E) : /\ e.kv["name"] # {}
                                      /\ e.kv["type"] = {"DATA"}
                                      /\ e.kv["static_var"] # {TRUE}}

\* A NO_MATCH event was reported for the address, with or without a message
NoMatchReported(ev, addr) ==
    \E i \in DOMAIN ev : ev[i][1] = "NO_MATCH" /\ ev[i][2] = addr

\* The orig address is matched in E
IsMatched(E, addr) == \E e \in E : e.orig = addr /\ e.recomp # NULL

\* C29 (as claimed): in match_symbols, match_vtables, match_static_variables
\* and match_variables every orig entity the pass examines ends the pass
\* matched to a recomp entity or with a NO_MATCH event reported for its
\* address, also when two orig entities select the same recomp address.
C29_MatchedOrReported ==
    [][\A name \in {"match_symbols", "match_vtables",
                    "match_static_variables", "match_variables"} :
          lastOp' = <<name>>
              => \A e \in Examined(name, entities) :
                    IsMatched(entities', e.orig) \/ NoMatchReported(events', e.orig)]_vars

----------------------------------------------------------------------------
(* The function-start table of the LinesDb over time *)

\* What search_line(path, line_start, line_end) would return on L
Answer(L, path, line_start, line_end) == SearchLine(L, path, line_start, line_end).ret

\* Every search_line call has the same answer on L1 as on L0
SameAnswers(L0, L1) ==
    \A path \in Filenames, line_start \in LineNumbers, line_end \in LineNumbers \cup {NULL} :
        Answer(L1, path, line_start, line_end) = Answer(L0, path, line_start, line_end)

\* The first search_line call on a LinesDb answers op[5] from everything
\* that L has recorded
FirstSearchReflects(L, op) ==
    op[5] = UniqueStart(RecordedStarts(L, op[2], op[3],
                            IF op[4] = NULL THEN op[3] ELSE op[4]))

\* C30: the function-start table is built at the first search_line call, which
\* reflects every add_lines and add_function_starts call made before it; no
\* call made after the first search changes the result of any later
\* search_line call.
C30_TableBuiltOnce ==
    [][/\ (lastOp'[1] # "search_line" /\ lines.functions_map = {})
              => lines'.functions_map = {}
       /\ (lastOp'[1] = "search_line" /\ lines.functions_map = {})
              => FirstSearchReflects(lines, lastOp')
       /\ lines.functions_map # {} => SameAnswers(lines, lines')]_vars

\* After the first search a line or a function start was added that a table
\* built now would answer with, and the search does not
C30_Witness ==
    /\ lines.functions_map # {}
    /\ lastOp[1] \in {"add_lines", "add_function_starts"}
    /\ \E path \in Filenames, line_start \in LineNumbers :
          /\ UniqueStart(RecordedStarts(lines, path, line_start, line_start)) # NULL
          /\ Answer(lines, path, line_start, NULL) = NULL

----------------------------------------------------------------------------
(* The specification of a client of the ReccmpDb: set() through the three
   anchors.  The connection is never committed or rolled back by the class:
   a statement that raises is undone by sqlite, the statements before it in
   the same call are not. *)

MaxSets == 3

StoreSources == {1, 2}
StoreTargets == {1, 2}
StoreSymbols == {"f"}

\* The values an anchor can stand on, by column
AnchorValues(col) ==
    CASE col = "source" -> StoreSources
      [] col = "target" -> StoreTargets
      [] col = "symbol" -> StoreSymbols

\* The parameters source, target, symbol of a call; {} is None
SetArgs(anchor_col) ==
    {a \in [source : {{}} \cup {{v} : v \in StoreSources},
            target : {{}} \cup {{v} : v \in StoreTargets},
            symbol : {{}} \cup {{v} : v \in StoreSymbols}] : a[anchor_col] = {}}

\* **kwargs of a call
SetKwargs == {EmptyMap, [test |-> 100], [test |-> 200]}

\* The effect of a set() call whose outcome is res
SetCalled(anchor_col, anchor_val, args, kwargs, res) ==
    /\ calls < MaxSets
    /\ calls' = calls + 1
    /\ reccmp' = res.rows
    /\ raised' = ~res.ok
    /\ lastOp' = <<"set", anchor_col, anchor_val, args, kwargs>>
    /\ UNCHANGED <<dbVars, batch, inWith, events, lines, source, preproc, parser>>

\* db.at_source(v).set(...), db.at_target(v).set(...), db.at_symbol(v).set(...)
DoAnchorSet ==
    \E anchor_col \in {"source", "target", "symbol"} :
    \E v \in AnchorValues(anchor_col), args \in SetArgs(anchor_col), kwargs \in SetKwargs :
        SetCalled(anchor_col, {v}, args, kwargs,
                  AnchorSet(reccmp, anchor_col, {v}, args, kwargs))

NextStore == DoAnchorSet

SpecStore == Init /\ [][NextStore]_vars

\* The record the call stands on: the one at the anchor, or a new one
AnchorRow(T, anchor_col, anchor_val) ==
    IF ThingsAt(T, anchor_col, anchor_val) # {}
    THEN OptVal(ThingsAt(T, anchor_col, anchor_val))
    ELSE NewThing

\* The call would give the anchor's record a unique value that another
\* record of T holds
WouldMerge(T, anchor_col, anchor_val, args) ==
    \E c \in {"source", "target", "symbol"} \ {anchor_col} :
        /\ args[c] # {}
        /\ AnchorRow(T, anchor_col, anchor_val)[c] = {}
        /\ ThingsAt(T, c, args[c]) # {}

\* C23 (as claimed): a set() call that would merge two records raises
\* sqlite3.IntegrityError and saves nothing: no record is created and no
\* unique field or attribute of any existing record changes, whichever of
\* the fields passed in the call causes the collision.
C23_CollisionSavesNothing ==
    [][lastOp'[1] = "set"
        => /\ WouldMerge(reccmp, lastOp'[2], lastOp'[3], lastOp'[4]) => raised'
           /\ raised' => reccmp' = reccmp]_vars

----------------------------------------------------------------------------
(* The specification of the preprocessor reading a source file line by
   line.  A line is a directive with its argument or a line of code; the
   macro the file tests and defines is XYZ. *)

MaxSourceLines == 4

LineKinds == {"ifdef", "ifndef", "if1", "if0", "define", "else", "endif", "code"}

\* The tokens of the line n of the kind
LineTokens(kind, n) ==
    CASE kind = "ifdef" -> <<Token("PREPROCESSOR", n, "#ifdef"), Token("IDENTIFIER", n, "XYZ"),
                             Token("NEWLINE", n, "\n")>>
      [] kind = "ifndef" -> <<Token("PREPROCESSOR", n, "#ifndef"), Token("IDENTIFIER", n, "XYZ"),
                              Token("NEWLINE", n, "\n")>>
      [] kind = "if1" -> <<Token("PREPROCESSOR", n, "#if"), Token("CONST", n, "1"),
                           Token("NEWLINE", n, "\n")>>
      [] kind = "if0" -> <<Token("PREPROCESSOR", n, "#if"), Token("CONST", n, "0"),
                           Token("NEWLINE", n, "\n")>>
      [] kind = "define" -> <<Token("PREPROCESSOR", n, "#define"), Token("IDENTIFIER", n, "XYZ"),
                              Token("NEWLINE", n, "\n")>>
      [] kind = "else" -> <<Token("PREPROCESSOR", n, "#else"), Token("NEWLINE", n, "\n")>>
      [] kind = "endif" -> <<Token("PREPROCESSOR", n, "#endif"), Token("NEWLINE", n, "\n")>>
      [] kind = "code" -> <<Token("IDENTIFIER", n, "hello"), Token("NEWLINE", n, "\n")>>

\* The generator is handed the next line of the file
PreprocessLine ==
    \E kind \in LineKinds :
        /\ Len(source) < MaxSourceLines
        /\ source' = Append(source, kind)
        /\ preproc' = Preprocess(preproc, LineTokens(kind, Len(source) + 1))
        /\ raised' = ~preproc'.ok
        /\ lastOp' = <<"preprocess", kind>>
        /\ UNCHANGED <<dbVars, batch, inWith, events, calls, lines, reccmp, parser>>

NextPreprocessor == PreprocessLine

SpecPreprocessor == Init /\ [][NextPreprocessor]_vars

\* What the C preprocessor makes of the lines read: the macros defined, the
\* open conditional blocks (innermost last; on: the branch being read is
\* taken, elsed: its #else was read), whether every #else and #endif had a
\* block to belong to, and whether a block has been closed whose last branch
\* was not taken
NoBlocks == [defined |-> {}, blocks |-> <<>>, wellformed |-> TRUE, closedFailed |-> FALSE]

Taken(c) == \A k \in DOMAIN c.blocks : c.blocks[k].on

Opened(c, on) == [c EXCEPT !.blocks = Append(@, [on |-> on, elsed |-> FALSE])]

ConditionalLine(c, kind) ==
    CASE kind = "ifdef" -> Opened(c, "XYZ" \in c.defined)
      [] kind = "ifndef" -> Opened(c, "XYZ" \notin c.defined)
      [] kind = "if1" -> Opened(c, TRUE)
      [] kind = "if0" -> Opened(c, FALSE)
      [] kind = "define" -> IF Taken(c) THEN [c EXCEPT !.defined = @ \cup {"XYZ"}] ELSE c
      [] kind = "else" ->
            IF c.blocks = <<>> \/ c.blocks[Len(c.blocks)].elsed
            THEN [c EXCEPT !.wellformed = FALSE]
            ELSE [c EXCEPT !.blocks[Len(c.blocks)] =
                                [on |-> ~c.blocks[Len(c.blocks)].on, elsed |-> TRUE]]
      [] kind = "endif" ->
            IF c.blocks = <<>> THEN [c EXCEPT !.wellformed = FALSE]
            ELSE [c EXCEPT !.blocks = SubSeq(@, 1, Len(@) - 1),
                           !.closedFailed = @ \/ ~c.blocks[Len(c.blocks)].on]
      [] OTHER -> c

RECURSIVE Conditionals(_, _)
Conditionals(c, kinds) ==
    IF kinds = <<>> THEN c
    ELSE Conditionals(ConditionalLine(c, Head(kinds)), Tail(kinds))

\* The conditionals as they stand before line i of the source
Before(i) == Conditionals(NoBlocks, SubSeq(source, 1, i - 1))

\* The code token of line i was yielded
Emitted(i) ==
    \E k \in DOMAIN preproc.out : preproc.out[k] = Token("IDENTIFIER", i, "hello")

\* What the preprocessor owes the code on line i when the conditionals
\* before it are c
CodeLineOutcome(c, i) ==
    c.wellformed
        => /\ ~Taken(c) => ~Emitted(i)
           /\ (Taken(c) /\ c.closedFailed /\ "define" \notin {source[j] : j \in 1..(i - 1)})
                  => Emitted(i)

\* C25 (as claimed): the preprocessor emits no token that lies inside a
\* conditional block whose condition is not met, and emits again every
\* non-directive token that follows the #endif matching that block; with
\* nested conditionals an #endif re-enables output only when it closes the
\* block that disabled it.  (Read for the code tokens of a file whose #else
\* and #endif all have a block, and, for the second part, that has no #define
\* before the token.)
C25_ConditionalBlocks ==
    \A i \in DOMAIN source : source[i] = "code" => CodeLineOutcome(Before(i), i)

----------------------------------------------------------------------------
(* The specification of the DecompParser reading a file token by token, as
   read() hands it the tokens of a file without preprocessor directives.
   Every token is on a line of its own. *)

MaxTokens == 4

\* The tokens the file can have on its line n
FileTokens(n) ==
    { Token("NEWLINE", n, "\n"),
      Token("LINE_COMMENT", n, "// FUNCTION: HELLO 0x1234"),
      Token("LINE_COMMENT", n, "// STUB: TEST 0x5555"),
      Token("LINE_COMMENT", n, "// GLOBAL: HELLO 0x2000"),
      Token("LINE_COMMENT", n, "// VTABLE: HELLO 0x3000"),
      Token("LINE_COMMENT", n, "// test"),
      Token("IDENTIFIER", n, "test"),
      Token("OPERATOR", n, "("),
      Token("OPERATOR", n, "{"),
      Token("OPERATOR", n, "}"),
      Token("OPERATOR", n, ";") }

ParserCalled(op) ==
    /\ lastOp' = op
    /\ raised' = FALSE
    /\ UNCHANGED <<dbVars, batch, inWith, events, calls, lines, reccmp, preproc>>

DoReadToken ==
    \E token \in FileTokens(Len(source) + 1) :
        /\ Len(source) < MaxTokens
        /\ source' = Append(source, token)
        /\ parser' = ReadToken(parser, token)
        /\ ParserCalled(<<"read_token", token>>)

DoFinish ==
    /\ parser.state # "DONE"
    /\ parser' = Finish(parser)
    /\ ParserCalled(<<"finish">>)
    /\ UNCHANGED source

NextParser ==
    \/ DoReadToken
    \/ DoFinish

SpecParser == Init /\ [][NextParser]_vars

\* The step reads a line comment that holds an annotation marker
ReadsMarker(op) ==
    /\ op[1] = "read_token"
    /\ op[2].type = "LINE_COMMENT"
    /\ MatchMarker(CommentWords(op[2].value)) # {}

\* What reading a marker is to do to the parser P0 that collects a signature
UnexpectedMarkerOutcome(P0, P1) ==
    /\ Len(P1.alerts) = Len(P0.alerts) + 1
    /\ P1.alerts[Len(P1.alerts)].code = "UNEXPECTED_MARKER"
    /\ P1.fun_markers = <<>>
    /\ P1.symbols = P0.symbols
    /\ P1.state = "SEARCH"

\* C24 (as claimed): when the parser has read function markers and collects
\* the signature tokens before the opening curly brace (FUNCTION_COLLECT),
\* reading another annotation marker of any type records exactly one
\* UNEXPECTED_MARKER alert, drops the pending function markers so that no
\* function is recorded for them, and returns the parser to SEARCH.
C24_UnexpectedMarker ==
    [][(parser.state = "FUNCTION_COLLECT" /\ parser.fun_markers # <<>> /\ ReadsMarker(lastOp'))
        => UnexpectedMarkerOutcome(parser, parser')]_vars
====
